---- MODULE Spec2Model ----
(***************************************************************************)
(* Schedule generation engine of the scouting application: turn            *)
(* derivation from break points (calculateTurns), feasibility validation   *)
(* (validateScheduleConfig) and the turn-scoped greedy assignment          *)
(* (generateSchedule).  The functions are pure; every specification below  *)
(* draws their arguments from bounded sets and applies them.               *)
(***************************************************************************)
EXTENDS Integers, Sequences, FiniteSets, TLC

VARIABLES
    eventConfig,    \* EventConfig: totalMatches, teamsPerMatch, allianceBlue, allianceRed
    personnel,      \* Personnel: leadScouters, scouters, cameras
    shiftConfig,    \* ShiftConfig: breakPoints, turns
    constraints,    \* ScheduleConstraints: maxMatchesPerScouter (None or Some(c))
    validation,     \* the list validateScheduleConfig returned last (None before a call)
    result,         \* the ScheduleGenerationResult generateSchedule returned last (None before)
    query,          \* the query-layer call made last: its function, arguments and value
    pc              \* the call made last: "input", "turns", "validated", "generated",
                    \* "queried"

vars == <<eventConfig, personnel, shiftConfig, constraints, validation, result, query, pc>>

----------------------------------------------------------------------------
(* Bounds of the explored inputs. *)

MaxMatches == 3
MaxBreaks == 3
MaxShiftBreaks == 2
MaxAlliance == 2
MaxScouters == 4
MaxLeads == 2
MaxCameras == 1
MaxCap == 3
MaxTurns == 2

\* JavaScript's null / undefined, and a present value.
None == <<>>
Some(x) == <<x>>

\* The sequences over S of length at most n.
BoundedSeq(S, n) == UNION {[1..k -> S] : k \in 0..n}

Range(s) == {s[i] : i \in 1..Len(s)}

----------------------------------------------------------------------------
(* calculateTurns *)

\* Array.prototype.sort((a, b) => a - b): a stable ascending sort, as an insertion
\* of each element after the last element not greater than it.
RECURSIVE InsertAsc(_, _)
InsertAsc(sorted, x) ==
    IF sorted = <<>> THEN <<x>>
    ELSE IF sorted[Len(sorted)] - x <= 0 THEN Append(sorted, x)
    ELSE Append(InsertAsc(SubSeq(sorted, 1, Len(sorted) - 1), x), sorted[Len(sorted)])

RECURSIVE SortAsc(_)
SortAsc(s) ==
    IF s = <<>> THEN <<>>
    ELSE InsertAsc(SortAsc(SubSeq(s, 1, Len(s) - 1)), s[Len(s)])

\* The filter predicate of calculateTurns: bp > 0 && bp < totalMatches.
KeepBreakLoose(bp, totalMatches) == bp >= 0 /\ bp <= totalMatches

KeepBreak(bp, totalMatches) == bp > 0 /\ bp < totalMatches

\* The forEach over sortedBreaks: pushes one turn per break point and moves startMatch.
\* Returns the turns pushed so far and the startMatch left for the final turn.
RECURSIVE PushTurns(_, _, _, _)
PushTurns(sortedBreaks, index, startMatch, turns) ==
    IF index > Len(sortedBreaks) THEN [turns |-> turns, startMatch |-> startMatch]
    ELSE PushTurns(sortedBreaks, index + 1, sortedBreaks[index] + 1,
                   Append(turns, [turn |-> index,
                                  startMatch |-> startMatch,
                                  endMatch |-> sortedBreaks[index]]))

calculateTurnsNoFinal(totalMatches, breakPoints) ==
    LET sortedBreaks == SelectSeq(SortAsc(breakPoints), LAMBDA bp : KeepBreak(bp, totalMatches))
    IN  PushTurns(sortedBreaks, 1, 1, <<>>).turns

calculateTurnsUnsorted(totalMatches, breakPoints) ==
    LET sortedBreaks == SelectSeq(breakPoints, LAMBDA bp : KeepBreak(bp, totalMatches))
        pushed == PushTurns(sortedBreaks, 1, 1, <<>>)
    IN  Append(pushed.turns, [turn |-> Len(pushed.turns) + 1,
                              startMatch |-> pushed.startMatch,
                              endMatch |-> totalMatches])

calculateTurns(totalMatches, breakPoints) ==
    LET sortedBreaks == SelectSeq(SortAsc(breakPoints), LAMBDA bp : KeepBreak(bp, totalMatches))
        pushed == PushTurns(sortedBreaks, 1, 1, <<>>)
    IN  Append(pushed.turns, [turn |-> Len(pushed.turns) + 1,
                              startMatch |-> pushed.startMatch,
                              endMatch |-> totalMatches])

----------------------------------------------------------------------------
(* getPositions *)

\* Half of teamsPerMatch rounded up.
TeamsPerAllianceCeil(ec) == (ec.teamsPerMatch + 1) \div 2

\* Math.floor(teamsPerMatch / 2) for a non-negative teamsPerMatch.
TeamsPerAlliance(ec) == ec.teamsPerMatch \div 2

\* `${alliance} ${i}`: a label is its alliance name and its slot number.
Label(alliance, i) == [alliance |-> alliance, slot |-> i]

getPositions(ec) ==
    [i \in 1..TeamsPerAlliance(ec) |-> Label(ec.allianceBlue, i)]
        \o [i \in 1..TeamsPerAlliance(ec) |-> Label(ec.allianceRed, i)]

----------------------------------------------------------------------------
(* validateScheduleConfig *)

\* String.prototype.trim on the names of the model: " " is all whitespace, the other
\* names carry none at their ends.
Trim(s) == IF s = " " THEN "" ELSE s

Error(message, details) == [type |-> "error", message |-> message, details |-> details]
Warning(message, details) == [type |-> "warning", message |-> message, details |-> details]

\* if (scouters.length < positionsPerMatch)
CheckMinScoutersOffByOne(ec, p) ==
    IF Len(p.scouters) + 1 < Len(getPositions(ec))
    THEN << Error("Not enough scouters", <<Len(getPositions(ec)), Len(p.scouters)>>) >>
    ELSE <<>>

CheckMinScouters(ec, p) ==
    IF Len(p.scouters) < Len(getPositions(ec))
    THEN << Error("Not enough scouters", <<Len(getPositions(ec)), Len(p.scouters)>>) >>
    ELSE <<>>

\* if (scouters.some(s => !s.trim()))
CheckEmptyNames(p) ==
    IF \E i \in 1..Len(p.scouters) : Trim(p.scouters[i]) = ""
    THEN << Error("Empty scouter names", <<>>) >>
    ELSE <<>>

\* if (leadScouters.length === 0)
CheckLeadScouters(p) ==
    IF Len(p.leadScouters) = 0 THEN << Error("No lead scouters", <<>>) >> ELSE <<>>

\* if (cameras.length === 0)
CheckCameras(p) ==
    IF Len(p.cameras) = 0 THEN << Error("No camera operators", <<>>) >> ELSE <<>>

\* if (constraints.maxMatchesPerScouter !== null) { ... capacity < requirement ... }
CheckMaxMatchesInclusive(ec, p, c) ==
    IF c.maxMatchesPerScouter # None
    THEN LET totalAssignmentsNeeded == ec.totalMatches * Len(getPositions(ec))
             maxPossibleAssignments == Len(p.scouters) * c.maxMatchesPerScouter[1]
         IN  IF maxPossibleAssignments <= totalAssignmentsNeeded
             THEN << Error("Max matches constraint cannot be satisfied",
                           <<totalAssignmentsNeeded, maxPossibleAssignments>>) >>
             ELSE <<>>
    ELSE <<>>

CheckMaxMatches(ec, p, c) ==
    IF c.maxMatchesPerScouter # None
    THEN LET totalAssignmentsNeeded == ec.totalMatches * Len(getPositions(ec))
             maxPossibleAssignments == Len(p.scouters) * c.maxMatchesPerScouter[1]
         IN  IF maxPossibleAssignments < totalAssignmentsNeeded
             THEN << Error("Max matches constraint cannot be satisfied",
                           <<totalAssignmentsNeeded, maxPossibleAssignments>>) >>
             ELSE <<>>
    ELSE <<>>

\* coveredMatches: every i with turn.startMatch <= i <= turn.endMatch, over all turns.
CoveredMatches(turns) ==
    UNION {turns[t].startMatch .. turns[t].endMatch : t \in 1..Len(turns)}

\* The turn check: no turns at all, or the first match of 1..totalMatches that no turn
\* covers (the scan breaks at the first one).
CheckTurnCoverageEnds(ec, sc) ==
    IF Len(sc.turns) = 0 THEN << Error("No turns defined", <<>>) >>
    ELSE IF sc.turns[1].startMatch # 1 \/ sc.turns[Len(sc.turns)].endMatch # ec.totalMatches
         THEN << Error("Gaps in turn coverage", <<1>>) >>
         ELSE <<>>

CheckTurnCoverage(ec, sc) ==
    IF Len(sc.turns) = 0 THEN << Error("No turns defined", <<>>) >>
    ELSE LET uncovered == {i \in 1..ec.totalMatches : i \notin CoveredMatches(sc.turns)}
         IN  IF uncovered # {}
             THEN << Error("Gaps in turn coverage",
                           << CHOOSE i \in uncovered : \A j \in uncovered : i <= j >>) >>
             ELSE <<>>

\* A validator that returns at its first failing check.
validateScheduleConfigFirstOnly(ec, p, sc, c) ==
    LET all == CheckMinScouters(ec, p)
                   \o CheckEmptyNames(p)
                   \o CheckLeadScouters(p)
                   \o CheckCameras(p)
                   \o CheckMaxMatches(ec, p, c)
                   \o CheckTurnCoverage(ec, sc)
    IN  IF all = <<>> THEN <<>> ELSE <<all[1]>>

validateScheduleConfig(ec, p, sc, c) ==
    CheckMinScouters(ec, p)
        \o CheckEmptyNames(p)
        \o CheckLeadScouters(p)
        \o CheckCameras(p)
        \o CheckMaxMatches(ec, p, c)
        \o CheckTurnCoverage(ec, sc)

----------------------------------------------------------------------------
(* generateSchedule (turn-scoped) *)

ImbalanceSlack == 2
UnassignedExamples == 5

\* Map.get(s) || 0
GetCount(counts, s) == IF s \in DOMAIN counts /\ counts[s] # 0 THEN counts[s] ELSE 0

\* scouters.forEach(s => map.set(s, 0)): one entry per distinct name.
ZeroCounts(scouters) == [s \in Range(scouters) |-> 0]

\* [...scouters].sort((a, b) => countA - countB): stable, ascending by turn count.
\* An insertion that puts x before the elements of equal count.
RECURSIVE InsertByCountUnstable(_, _, _)
InsertByCountUnstable(sorted, x, counts) ==
    IF sorted = <<>> THEN <<x>>
    ELSE IF GetCount(counts, sorted[Len(sorted)]) - GetCount(counts, x) < 0
         THEN Append(sorted, x)
         ELSE Append(InsertByCountUnstable(SubSeq(sorted, 1, Len(sorted) - 1), x, counts),
                     sorted[Len(sorted)])

RECURSIVE InsertByCount(_, _, _)
InsertByCount(sorted, x, counts) ==
    IF sorted = <<>> THEN <<x>>
    ELSE IF GetCount(counts, sorted[Len(sorted)]) - GetCount(counts, x) <= 0
         THEN Append(sorted, x)
         ELSE Append(InsertByCount(SubSeq(sorted, 1, Len(sorted) - 1), x, counts),
                     sorted[Len(sorted)])

\* The roster as it is, not sorted.
SortByTurnCountSkipped(scouters, counts) == scouters

RECURSIVE SortByTurnCount(_, _)
SortByTurnCount(scouters, counts) ==
    IF scouters = <<>> THEN <<>>
    ELSE InsertByCount(SortByTurnCount(SubSeq(scouters, 1, Len(scouters) - 1), counts),
                       scouters[Len(scouters)], counts)

\* An index that stops at the end of the roster instead of wrapping around.
RoundRobinNoWrap(roster, index) ==
    IF Len(roster) = 0 THEN ""
    ELSE roster[(IF index < Len(roster) THEN index ELSE Len(roster) - 1) + 1]

\* roster[index % roster.length] || ''  (undefined when the roster is empty).
RoundRobin(roster, index) ==
    IF Len(roster) = 0 THEN "" ELSE roster[(index % Len(roster)) + 1]

\* The loop over positions counting one match per turn for the scouter it assigns.
RECURSIVE AssignPositionsCountOne(_, _, _, _, _)
AssignPositionsCountOne(posIndex, positions, sortedScouters, turn, acc) ==
    IF posIndex > Len(positions) THEN acc
    ELSE LET free == SelectSeq(sortedScouters,
                               LAMBDA s : s \notin Range(acc.turnAssignments))
             availableScouter == IF free = <<>> THEN None ELSE Some(free[1])
         IN  IF availableScouter # None /\ availableScouter[1] # ""
             THEN LET s == availableScouter[1]
                  IN  AssignPositionsCountOne(posIndex + 1, positions, sortedScouters, turn,
                          [acc EXCEPT
                             !.turnAssignments = Append(@, s),
                             !.scouterTurnCounts =
                                 [@ EXCEPT ![s] = GetCount(acc.scouterTurnCounts, s) + 1],
                             !.scouterMatchCounts =
                                 [@ EXCEPT ![s] = GetCount(acc.scouterMatchCounts, s) + 1]])
             ELSE AssignPositionsCountOne(posIndex + 1, positions, sortedScouters, turn,
                      [acc EXCEPT
                         !.turnAssignments = Append(@, ""),
                         !.warnings = Append(@,
                             Warning("No available scouter",
                                     [turn |-> turn.turn, position |-> positions[posIndex]]))])

\* The loop over positions without the test for scouters already used in the turn.
RECURSIVE AssignPositionsReuse(_, _, _, _, _)
AssignPositionsReuse(posIndex, positions, sortedScouters, turn, acc) ==
    IF posIndex > Len(positions) THEN acc
    ELSE LET matchesInTurn == turn.endMatch - turn.startMatch + 1
             availableScouter == IF sortedScouters = <<>> THEN None
                                 ELSE Some(sortedScouters[1])
         IN  IF availableScouter # None /\ availableScouter[1] # ""
             THEN LET s == availableScouter[1]
                  IN  AssignPositionsReuse(posIndex + 1, positions, sortedScouters, turn,
                          [acc EXCEPT
                             !.turnAssignments = Append(@, s),
                             !.scouterTurnCounts =
                                 [@ EXCEPT ![s] = GetCount(acc.scouterTurnCounts, s) + 1],
                             !.scouterMatchCounts =
                                 [@ EXCEPT ![s] = GetCount(acc.scouterMatchCounts, s)
                                                     + matchesInTurn]])
             ELSE AssignPositionsReuse(posIndex + 1, positions, sortedScouters, turn,
                      [acc EXCEPT
                         !.turnAssignments = Append(@, ""),
                         !.warnings = Append(@,
                             Warning("No available scouter",
                                     [turn |-> turn.turn, position |-> positions[posIndex]]))])

\* The loop over positions of one turn: each position takes the first scouter of
\* sortedScouters not yet in turnAssignments, or '' and a warning when there is none.
\* acc: turnAssignments, scouterTurnCounts, scouterMatchCounts, warnings.
RECURSIVE AssignPositions(_, _, _, _, _)
AssignPositions(posIndex, positions, sortedScouters, turn, acc) ==
    IF posIndex > Len(positions) THEN acc
    ELSE LET matchesInTurn == turn.endMatch - turn.startMatch + 1
             free == SelectSeq(sortedScouters,
                               LAMBDA s : s \notin Range(acc.turnAssignments))
             availableScouter == IF free = <<>> THEN None ELSE Some(free[1])
         IN  IF availableScouter # None /\ availableScouter[1] # ""
             THEN LET s == availableScouter[1]
                  IN  AssignPositions(posIndex + 1, positions, sortedScouters, turn,
                          [acc EXCEPT
                             !.turnAssignments = Append(@, s),
                             !.scouterTurnCounts =
                                 [@ EXCEPT ![s] = GetCount(acc.scouterTurnCounts, s) + 1],
                             !.scouterMatchCounts =
                                 [@ EXCEPT ![s] = GetCount(acc.scouterMatchCounts, s)
                                                     + matchesInTurn]])
             ELSE AssignPositions(posIndex + 1, positions, sortedScouters, turn,
                      [acc EXCEPT
                         !.turnAssignments = Append(@, ""),
                         !.warnings = Append(@,
                             Warning("No available scouter",
                                     [turn |-> turn.turn, position |-> positions[posIndex]]))])

\* The matches of a turn without its last match.
TurnMatchesExclusive(turn, positions, turnAssignments, turnLeadScouter, turnCamera) ==
    [k \in 1..(turn.endMatch - turn.startMatch) |->
        [matchNumber |-> turn.startMatch + k - 1,
         leadScouter |-> turnLeadScouter,
         camera |-> turnCamera,
         assignments |-> [posIndex \in 1..Len(positions) |->
                             [position |-> positions[posIndex],
                              scouter |-> turnAssignments[posIndex],
                              teamNumber |-> None]]]]

\* Matches whose assignments rotate by one position from match to match.
TurnMatchesRotating(turn, positions, turnAssignments, turnLeadScouter, turnCamera) ==
    [k \in 1..(turn.endMatch - turn.startMatch + 1) |->
        [matchNumber |-> turn.startMatch + k - 1,
         leadScouter |-> turnLeadScouter,
         camera |-> turnCamera,
         assignments |-> [posIndex \in 1..Len(positions) |->
                             [position |-> positions[posIndex],
                              scouter |-> turnAssignments[((posIndex + k - 2)
                                                              % Len(positions)) + 1],
                              teamNumber |-> None]]]]

\* The MatchSchedule entries of one turn: one per match number of startMatch..endMatch,
\* all with the turn's lead scouter, camera and assignments.
TurnMatches(turn, positions, turnAssignments, turnLeadScouter, turnCamera) ==
    [k \in 1..(turn.endMatch - turn.startMatch + 1) |->
        [matchNumber |-> turn.startMatch + k - 1,
         leadScouter |-> turnLeadScouter,
         camera |-> turnCamera,
         assignments |-> [posIndex \in 1..Len(positions) |->
                             [position |-> positions[posIndex],
                              scouter |-> turnAssignments[posIndex],
                              teamNumber |-> None]]]]

\* One iteration of `for (const turn of turns)`.
\* g: schedule, scouterTurnCounts, scouterMatchCounts, leadScouterIndex, cameraIndex, warnings.
GenerateTurn(g, turn, p, positions) ==
    LET turnLeadScouter == RoundRobin(p.leadScouters, g.leadScouterIndex)
        turnCamera == RoundRobin(p.cameras, g.cameraIndex)
        sortedScouters == SortByTurnCount(p.scouters, g.scouterTurnCounts)
        a == AssignPositions(1, positions, sortedScouters, turn,
                 [turnAssignments |-> <<>>,
                  scouterTurnCounts |-> g.scouterTurnCounts,
                  scouterMatchCounts |-> g.scouterMatchCounts,
                  warnings |-> g.warnings])
    IN  [schedule |-> g.schedule
                        \o TurnMatches(turn, positions, a.turnAssignments,
                                       turnLeadScouter, turnCamera),
         scouterTurnCounts |-> a.scouterTurnCounts,
         scouterMatchCounts |-> a.scouterMatchCounts,
         leadScouterIndex |-> g.leadScouterIndex + 1,
         cameraIndex |-> g.cameraIndex + 1,
         warnings |-> a.warnings]

\* The state of the generation loop after the first n turns.
RECURSIVE GenerateTurns(_, _, _, _)
GenerateTurns(n, turns, p, positions) ==
    IF n = 0
    THEN [schedule |-> <<>>,
          scouterTurnCounts |-> ZeroCounts(p.scouters),
          scouterMatchCounts |-> ZeroCounts(p.scouters),
          leadScouterIndex |-> 0,
          cameraIndex |-> 0,
          warnings |-> <<>>]
    ELSE GenerateTurn(GenerateTurns(n - 1, turns, p, positions), turns[n], p, positions)

\* schedule.flatMap(m => m.assignments.filter(a => !a.scouter).map(...)): the
\* (matchNumber, position) of every empty-scouter assignment, in schedule order.
RECURSIVE UnassignedPositions(_)
UnassignedPositions(schedule) ==
    IF schedule = <<>> THEN <<>>
    ELSE LET m == schedule[Len(schedule)]
             empty == SelectSeq(m.assignments, LAMBDA a : a.scouter = "")
         IN  UnassignedPositions(SubSeq(schedule, 1, Len(schedule) - 1))
                 \o [k \in 1..Len(empty) |->
                        [matchNumber |-> m.matchNumber, position |-> empty[k].position]]

\* The audit with the truncation marker already at five unassigned positions.
UnassignedWarningInclusive(schedule) ==
    LET unassignedPositions == UnassignedPositions(schedule)
        n == Len(unassignedPositions)
    IN  IF n > 0
        THEN << Warning("positions left unassigned",
                    [count |-> n,
                     examples |-> SubSeq(unassignedPositions, 1,
                                         IF n < UnassignedExamples THEN n
                                         ELSE UnassignedExamples),
                     truncated |-> n >= UnassignedExamples]) >>
        ELSE <<>>

\* The audit after generation: one aggregate warning when some position is unassigned,
\* with the count, the first five examples and the '...' marker beyond five.
UnassignedWarning(schedule) ==
    LET unassignedPositions == UnassignedPositions(schedule)
        n == Len(unassignedPositions)
    IN  IF n > 0
        THEN << Warning("positions left unassigned",
                    [count |-> n,
                     examples |-> SubSeq(unassignedPositions, 1,
                                         IF n < UnassignedExamples THEN n
                                         ELSE UnassignedExamples),
                     truncated |-> n > UnassignedExamples]) >>
        ELSE <<>>

\* Math.ceil(a / b) for a >= 0, b > 0.
CeilDiv(a, b) == (a + b - 1) \div b

\* The workload check warning already at the threshold.
ImbalanceWarningInclusive(ec, p, scouterMatchCounts) ==
    IF DOMAIN scouterMatchCounts = {} THEN <<>>
    ELSE LET counts == {scouterMatchCounts[s] : s \in DOMAIN scouterMatchCounts}
             minCount == CHOOSE x \in counts : \A y \in counts : x <= y
             maxCount == CHOOSE x \in counts : \A y \in counts : x >= y
         IN  IF maxCount - minCount
                    >= CeilDiv(ec.totalMatches, Len(p.scouters)) * ImbalanceSlack
             THEN << Warning("Uneven workload distribution",
                             [min |-> minCount, max |-> maxCount]) >>
             ELSE <<>>

\* The workload check over scouterMatchCounts.values(); with no scouter at all
\* Math.min() - Math.max() compares as false and nothing is pushed.
ImbalanceWarning(ec, p, scouterMatchCounts) ==
    IF DOMAIN scouterMatchCounts = {} THEN <<>>
    ELSE LET counts == {scouterMatchCounts[s] : s \in DOMAIN scouterMatchCounts}
             minCount == CHOOSE x \in counts : \A y \in counts : x <= y
             maxCount == CHOOSE x \in counts : \A y \in counts : x >= y
         IN  IF maxCount - minCount
                    > CeilDiv(ec.totalMatches, Len(p.scouters)) * ImbalanceSlack
             THEN << Warning("Uneven workload distribution",
                             [min |-> minCount, max |-> maxCount]) >>
             ELSE <<>>

\* A generator that reports failure when a slot could not be filled.
generateScheduleAbortUnfilled(ec, p, sc, c) ==
    LET validationErrors == validateScheduleConfig(ec, p, sc, c)
        errors == SelectSeq(validationErrors, LAMBDA e : e.type = "error")
        warnings == SelectSeq(validationErrors, LAMBDA e : e.type = "warning")
        g == GenerateTurns(Len(sc.turns), sc.turns, p, getPositions(ec))
    IN  IF Len(errors) > 0 \/ Len(g.warnings) > 0
        THEN [success |-> FALSE, schedule |-> None, errors |-> errors, warnings |-> warnings]
        ELSE [success |-> TRUE,
              schedule |-> Some([event |-> ec, personnel |-> p, shifts |-> sc,
                                 schedule |-> g.schedule]),
              errors |-> <<>>,
              warnings |-> warnings
                              \o g.warnings
                              \o UnassignedWarning(g.schedule)
                              \o ImbalanceWarning(ec, p, g.scouterMatchCounts)]

generateSchedule(ec, p, sc, c) ==
    LET validationErrors == validateScheduleConfig(ec, p, sc, c)
        errors == SelectSeq(validationErrors, LAMBDA e : e.type = "error")
        warnings == SelectSeq(validationErrors, LAMBDA e : e.type = "warning")
    IN  IF Len(errors) > 0
        THEN [success |-> FALSE, schedule |-> None, errors |-> errors, warnings |-> warnings]
        ELSE LET g == GenerateTurns(Len(sc.turns), sc.turns, p, getPositions(ec))
             IN  [success |-> TRUE,
                  schedule |-> Some([event |-> ec, personnel |-> p, shifts |-> sc,
                                     schedule |-> g.schedule]),
                  errors |-> <<>>,
                  warnings |-> warnings
                                  \o g.warnings
                                  \o UnassignedWarning(g.schedule)
                                  \o ImbalanceWarning(ec, p, g.scouterMatchCounts)]

----------------------------------------------------------------------------
(* The per-match generator (utils/scheduleGenerator.ts): six fixed positions, one *)
(* greedy choice per position of every match, the cap honoured while choosing.     *)

POSITIONS ==
    <<Label("Blue", 1), Label("Blue", 2), Label("Blue", 3),
      Label("Red", 1), Label("Red", 2), Label("Red", 3)>>

\* The validator of this file: the one above with positionsPerMatch = POSITIONS.length.
validateScheduleConfigPerMatch(ec, p, sc, c) ==
    validateScheduleConfig([ec EXCEPT !.teamsPerMatch = Len(POSITIONS),
                                      !.allianceBlue = "Blue",
                                      !.allianceRed = "Red"], p, sc, c)

\* scouters.forEach((s, i) => scouterLastPosition.set(s, i % POSITIONS.length)): a name
\* occurring twice keeps the value of its last occurrence.
InitialLastPosition(scouters) ==
    [s \in Range(scouters) |->
        LET last == CHOOSE i \in 1..Len(scouters) :
                        /\ scouters[i] = s
                        /\ \A k \in (i + 1)..Len(scouters) : scouters[k] # s
        IN  (last - 1) % Len(POSITIONS)]

\* The filter of availableScouters: below the cap when there is one, and not yet
\* assigned in this match.
AvailableScouters(scouters, counts, assignments, cap) ==
    SelectSeq(scouters,
              LAMBDA s : /\ ~(cap # None /\ GetCount(counts, s) >= cap[1])
                         /\ \A i \in 1..Len(assignments) : assignments[i].scouter # s)

\* The comparator of availableScouters.sort: fewest matches first, then scouters whose
\* last position is not this one.  posIndex is 0-based as in the code.
Compare(a, b, counts, lastPosition, posIndex) ==
    IF GetCount(counts, a) # GetCount(counts, b)
    THEN GetCount(counts, a) - GetCount(counts, b)
    ELSE (IF GetCount(lastPosition, a) = posIndex THEN 1 ELSE 0)
            - (IF GetCount(lastPosition, b) = posIndex THEN 1 ELSE 0)

RECURSIVE InsertByCompare(_, _, _, _, _)
InsertByCompare(sorted, x, counts, lastPosition, posIndex) ==
    IF sorted = <<>> THEN <<x>>
    ELSE IF Compare(sorted[Len(sorted)], x, counts, lastPosition, posIndex) <= 0
         THEN Append(sorted, x)
         ELSE Append(InsertByCompare(SubSeq(sorted, 1, Len(sorted) - 1), x, counts,
                                     lastPosition, posIndex),
                     sorted[Len(sorted)])

\* Array.prototype.sort with that comparator (stable).
RECURSIVE SortByCompare(_, _, _, _)
SortByCompare(scouters, counts, lastPosition, posIndex) ==
    IF scouters = <<>> THEN <<>>
    ELSE InsertByCompare(SortByCompare(SubSeq(scouters, 1, Len(scouters) - 1), counts,
                                       lastPosition, posIndex),
                         scouters[Len(scouters)], counts, lastPosition, posIndex)

\* The loop over POSITIONS of one match.
\* acc: assignments, scouterMatchCounts, scouterLastPosition, warnings.
RECURSIVE AssignMatchPositions(_, _, _, _, _)
AssignMatchPositions(posIndex, matchNum, scouters, cap, acc) ==
    IF posIndex >= Len(POSITIONS) THEN acc
    ELSE LET position == POSITIONS[posIndex + 1]
             availableScouters == AvailableScouters(scouters, acc.scouterMatchCounts,
                                                    acc.assignments, cap)
         IN  IF Len(availableScouters) = 0
             THEN AssignMatchPositions(posIndex + 1, matchNum, scouters, cap,
                      [acc EXCEPT
                         !.warnings = Append(@,
                             Warning("No available scouter",
                                     [match |-> matchNum, position |-> position])),
                         !.assignments = Append(@, [position |-> position, scouter |-> "",
                                                    teamNumber |-> None])])
             ELSE LET selectedScouter ==
                          SortByCompare(availableScouters, acc.scouterMatchCounts,
                                        acc.scouterLastPosition, posIndex)[1]
                  IN  AssignMatchPositions(posIndex + 1, matchNum, scouters, cap,
                          [acc EXCEPT
                             !.assignments = Append(@, [position |-> position,
                                                        scouter |-> selectedScouter,
                                                        teamNumber |-> None]),
                             !.scouterMatchCounts =
                                 (selectedScouter :>
                                     (GetCount(acc.scouterMatchCounts, selectedScouter) + 1))
                                     @@ @,
                             !.scouterLastPosition = (selectedScouter :> posIndex) @@ @])

\* The loop over the matches matchNum..turn.endMatch of one turn.
\* g: schedule, scouterMatchCounts, scouterLastPosition, leadScouterIndex, cameraIndex,
\* warnings.
RECURSIVE GenerateMatches(_, _, _, _, _)
GenerateMatches(matchNum, turn, p, cap, g) ==
    IF matchNum > turn.endMatch THEN g
    ELSE LET a == AssignMatchPositions(0, matchNum, p.scouters, cap,
                      [assignments |-> <<>>,
                       scouterMatchCounts |-> g.scouterMatchCounts,
                       scouterLastPosition |-> g.scouterLastPosition,
                       warnings |-> g.warnings])
             matchSchedule == [matchNumber |-> matchNum,
                               leadScouter |-> RoundRobin(p.leadScouters,
                                                          g.leadScouterIndex),
                               camera |-> RoundRobin(p.cameras, g.cameraIndex),
                               assignments |-> a.assignments]
         IN  GenerateMatches(matchNum + 1, turn, p, cap,
                 [g EXCEPT !.schedule = Append(@, matchSchedule),
                           !.scouterMatchCounts = a.scouterMatchCounts,
                           !.scouterLastPosition = a.scouterLastPosition,
                           !.warnings = a.warnings])

\* The state of the loop over turns after the first n turns; the lead scouter and
\* camera indices advance once per turn.
RECURSIVE GenerateTurnsPerMatch(_, _, _, _)
GenerateTurnsPerMatch(n, turns, p, cap) ==
    IF n = 0
    THEN [schedule |-> <<>>,
          scouterMatchCounts |-> ZeroCounts(p.scouters),
          scouterLastPosition |-> InitialLastPosition(p.scouters),
          leadScouterIndex |-> 0,
          cameraIndex |-> 0,
          warnings |-> <<>>]
    ELSE LET g == GenerateMatches(turns[n].startMatch, turns[n], p, cap,
                                  GenerateTurnsPerMatch(n - 1, turns, p, cap))
         IN  [g EXCEPT !.leadScouterIndex = @ + 1, !.cameraIndex = @ + 1]

\* The workload check of this file: the threshold is ceil(totalMatches / scouters.length).
ImbalanceWarningPerMatch(ec, p, scouterMatchCounts) ==
    IF DOMAIN scouterMatchCounts = {} THEN <<>>
    ELSE LET counts == {scouterMatchCounts[s] : s \in DOMAIN scouterMatchCounts}
             minCount == CHOOSE x \in counts : \A y \in counts : x <= y
             maxCount == CHOOSE x \in counts : \A y \in counts : x >= y
         IN  IF maxCount - minCount > CeilDiv(ec.totalMatches, Len(p.scouters))
             THEN << Warning("Uneven workload distribution",
                             [min |-> minCount, max |-> maxCount]) >>
             ELSE <<>>

generateSchedulePerMatch(ec, p, sc, c) ==
    LET validationErrors == validateScheduleConfigPerMatch(ec, p, sc, c)
        errors == SelectSeq(validationErrors, LAMBDA e : e.type = "error")
        warnings == SelectSeq(validationErrors, LAMBDA e : e.type = "warning")
    IN  IF Len(errors) > 0
        THEN [success |-> FALSE, schedule |-> None, errors |-> errors, warnings |-> warnings]
        ELSE LET g == GenerateTurnsPerMatch(Len(sc.turns), sc.turns, p,
                                            c.maxMatchesPerScouter)
             IN  [success |-> TRUE,
                  schedule |-> Some([event |-> ec, personnel |-> p, shifts |-> sc,
                                     schedule |-> g.schedule]),
                  errors |-> <<>>,
                  warnings |-> warnings
                                  \o g.warnings
                                  \o UnassignedWarning(g.schedule)
                                  \o ImbalanceWarningPerMatch(ec, p, g.scouterMatchCounts)]

----------------------------------------------------------------------------
(* Query layer over a GeneratedSchedule. *)

\* String.prototype.toLowerCase on the names used here: the upper-case scouter names
\* have a lower-case form, every other name is its own lower-case form.
LowerCaseNames == <<"a", "b", "c", "d", "e", "f", "g">>
UpperCaseNames == <<"A", "B", "C", "D", "E", "F", "G">>

ToLowerCase(s) ==
    IF \E i \in 1..Len(UpperCaseNames) : UpperCaseNames[i] = s
    THEN LowerCaseNames[CHOOSE i \in 1..Len(UpperCaseNames) : UpperCaseNames[i] = s]
    ELSE s

\* Array.prototype.find, given the set of indices whose element satisfies the test: the
\* first such element, or undefined (None).
Find(seq, hits) ==
    IF hits = {} THEN None
    ELSE Some(seq[CHOOSE i \in hits : \A k \in hits : i <= k])

\* a.scouter === scouterName, compared without lower-casing.
SameNameExact(a, b) == a = b

\* a.scouter.toLowerCase() === scouterName.toLowerCase()
SameName(a, b) == ToLowerCase(a) = ToLowerCase(b)

\* The inner loop of getScouterAssignments: for each match of the turn, the first
\* assignment whose scouter equals the name gives one entry.
RECURSIVE CollectAssignments(_, _)
CollectAssignments(turnMatches, scouterName) ==
    IF turnMatches = <<>> THEN <<>>
    ELSE LET match == Head(turnMatches)
             scouterAssignment == Find(match.assignments,
                                       {i \in 1..Len(match.assignments) :
                                           SameName(match.assignments[i].scouter,
                                                    scouterName)})
             rest == CollectAssignments(Tail(turnMatches), scouterName)
         IN  IF scouterAssignment # None
             THEN <<[matchNumber |-> match.matchNumber,
                     position |-> scouterAssignment[1].position,
                     teamNumber |-> scouterAssignment[1].teamNumber,
                     leadScouter |-> match.leadScouter]>> \o rest
             ELSE rest

\* The outer loop of getScouterAssignments over the first n turns.
RECURSIVE ScouterTurns(_, _, _)
ScouterTurns(n, gs, scouterName) ==
    IF n = 0 THEN <<>>
    ELSE LET turn == gs.shifts.turns[n]
             turnMatches == SelectSeq(gs.schedule,
                                LAMBDA m : m.matchNumber >= turn.startMatch
                                           /\ m.matchNumber <= turn.endMatch)
             assignments == CollectAssignments(turnMatches, scouterName)
             before == ScouterTurns(n - 1, gs, scouterName)
         IN  IF Len(assignments) > 0
             THEN Append(before, [turn |-> turn.turn,
                                  startMatch |-> turn.startMatch,
                                  endMatch |-> turn.endMatch,
                                  assignments |-> assignments])
             ELSE before

getScouterAssignments(gs, scouterName) ==
    ScouterTurns(Len(gs.shifts.turns), gs, scouterName)

\* isLastMatchOfTurn that looks at the first assignment of each turn entry.
isLastMatchOfTurnFirst(gs, matchNumber, scouterName) ==
    LET assignments == getScouterAssignments(gs, scouterName)
        hit == Find(assignments,
                    {i \in 1..Len(assignments) :
                        assignments[i].assignments[1].matchNumber = matchNumber})
    IN  IF hit # None
        THEN [isLast |-> TRUE, turnNumber |-> Some(hit[1].turn)]
        ELSE [isLast |-> FALSE, turnNumber |-> None]

\* isLastMatchOfTurn: the first turn entry of the scouter whose last assignment is the
\* given match.
isLastMatchOfTurn(gs, matchNumber, scouterName) ==
    LET assignments == getScouterAssignments(gs, scouterName)
        hit == Find(assignments,
                    {i \in 1..Len(assignments) :
                        /\ Len(assignments[i].assignments) > 0
                        /\ assignments[i].assignments[Len(assignments[i].assignments)]
                               .matchNumber = matchNumber})
    IN  IF hit # None
        THEN [isLast |-> TRUE, turnNumber |-> Some(hit[1].turn)]
        ELSE [isLast |-> FALSE, turnNumber |-> None]

\* getNextScouterForPosition that returns the scouter field as it is, '' included.
getNextScouterForPositionRaw(gs, currentMatchNumber, position) ==
    LET nextMatch == Find(gs.schedule,
                          {i \in 1..Len(gs.schedule) :
                              gs.schedule[i].matchNumber = currentMatchNumber + 1})
    IN  IF nextMatch = None THEN None
        ELSE LET nextAssignment == Find(nextMatch[1].assignments,
                                        {i \in 1..Len(nextMatch[1].assignments) :
                                            nextMatch[1].assignments[i].position
                                                = position})
             IN  IF nextAssignment = None THEN None
                 ELSE Some(nextAssignment[1].scouter)

\* getNextScouterForPosition: nextAssignment?.scouter || null
getNextScouterForPosition(gs, currentMatchNumber, position) ==
    LET nextMatch == Find(gs.schedule,
                          {i \in 1..Len(gs.schedule) :
                              gs.schedule[i].matchNumber = currentMatchNumber + 1})
    IN  IF nextMatch = None THEN None
        ELSE LET nextAssignment == Find(nextMatch[1].assignments,
                                        {i \in 1..Len(nextMatch[1].assignments) :
                                            nextMatch[1].assignments[i].position
                                                = position})
             IN  IF nextAssignment = None \/ nextAssignment[1].scouter = ""
                 THEN None
                 ELSE Some(nextAssignment[1].scouter)

\* One step of the loop of getScouterStats, for an assignment without the skip of
\* empty scouters.
CountAssignmentAll(stats, assignment) ==
    LET old == IF assignment.scouter \in DOMAIN stats
               THEN stats[assignment.scouter]
               ELSE [totalMatches |-> 0, positions |-> <<>>]
        posCount == IF assignment.position \in DOMAIN old.positions
                    THEN old.positions[assignment.position] ELSE 0
        new == [totalMatches |-> old.totalMatches + 1,
                positions |-> (assignment.position :> (posCount + 1)) @@ old.positions]
    IN  (assignment.scouter :> new) @@ stats

\* One step of the loop of getScouterStats: skip an empty scouter, create the entry
\* of a new name, count the match and the position.
CountAssignment(stats, assignment) ==
    IF assignment.scouter = "" THEN stats
    ELSE LET old == IF assignment.scouter \in DOMAIN stats
                    THEN stats[assignment.scouter]
                    ELSE [totalMatches |-> 0, positions |-> <<>>]
             posCount == IF assignment.position \in DOMAIN old.positions
                         THEN old.positions[assignment.position] ELSE 0
             new == [totalMatches |-> old.totalMatches + 1,
                     positions |-> (assignment.position :> (posCount + 1))
                                       @@ old.positions]
         IN  (assignment.scouter :> new) @@ stats

RECURSIVE CountAssignments(_, _)
CountAssignments(stats, assignments) ==
    IF assignments = <<>> THEN stats
    ELSE CountAssignments(CountAssignment(stats, Head(assignments)), Tail(assignments))

RECURSIVE CountMatches(_, _)
CountMatches(stats, schedule) ==
    IF schedule = <<>> THEN stats
    ELSE CountMatches(CountAssignments(stats, Head(schedule).assignments), Tail(schedule))

\* getScouterStats: a Map from scouter name to totalMatches and a Map from position
\* to count, here functions whose domain is the set of keys.
getScouterStats(gs) == CountMatches(<<>>, gs.schedule)

----------------------------------------------------------------------------
(* exportFullSchedule and parseScheduleJSON.  The JSON text is represented by its *)
(* value tree: null, number, string, array of values, object of (key, value)     *)
(* members in the order JSON.stringify writes them.                               *)

JNull == [type |-> "null"]
JNumber(n) == [type |-> "number", value |-> n]
JString(s) == [type |-> "string", value |-> s]
JArray(items) == [type |-> "array", items |-> items]
JObject(members) == [type |-> "object", members |-> members]

\* A text that JSON.parse rejects.
Malformed == [type |-> "malformed"]

JStrings(names) == JArray([i \in 1..Len(names) |-> JString(names[i])])
JNumbers(ns) == JArray([i \in 1..Len(ns) |-> JNumber(ns[i])])
JNullable(v) == IF v = None THEN JNull ELSE JNumber(v[1])

StringifyEvent(e) ==
    JObject(<< <<"totalMatches", JNumber(e.totalMatches)>>,
               <<"teamsPerMatch", JNumber(e.teamsPerMatch)>>,
               <<"allianceBlue", JString(e.allianceBlue)>>,
               <<"allianceRed", JString(e.allianceRed)>> >>)

StringifyPersonnel(p) ==
    JObject(<< <<"leadScouters", JStrings(p.leadScouters)>>,
               <<"scouters", JStrings(p.scouters)>>,
               <<"cameras", JStrings(p.cameras)>> >>)

StringifyTurn(t) ==
    JObject(<< <<"turn", JNumber(t.turn)>>,
               <<"startMatch", JNumber(t.startMatch)>>,
               <<"endMatch", JNumber(t.endMatch)>> >>)

StringifyShifts(sc) ==
    JObject(<< <<"breakPoints", JNumbers(sc.breakPoints)>>,
               <<"turns", JArray([i \in 1..Len(sc.turns) |-> StringifyTurn(sc.turns[i])])>> >>)

StringifyAssignment(a) ==
    JObject(<< <<"position", JString(a.position)>>,
               <<"scouter", JString(a.scouter)>>,
               <<"teamNumber", JNullable(a.teamNumber)>> >>)

StringifyMatch(m) ==
    JObject(<< <<"matchNumber", JNumber(m.matchNumber)>>,
               <<"leadScouter", JString(m.leadScouter)>>,
               <<"camera", JString(m.camera)>>,
               <<"assignments", JArray([i \in 1..Len(m.assignments) |->
                                           StringifyAssignment(m.assignments[i])])>> >>)

\* A serialisation that leaves out the members whose value is null.
exportFullScheduleSkipNull(gs) ==
    LET SkipNull(a) == JObject(<< <<"position", JString(a.position)>>,
                                  <<"scouter", JString(a.scouter)>> >>
                               \o (IF a.teamNumber = None THEN <<>>
                                   ELSE << <<"teamNumber", JNullable(a.teamNumber)>> >>))
        Match(m) == JObject(<< <<"matchNumber", JNumber(m.matchNumber)>>,
                               <<"leadScouter", JString(m.leadScouter)>>,
                               <<"camera", JString(m.camera)>>,
                               <<"assignments", JArray([i \in 1..Len(m.assignments) |->
                                                           SkipNull(m.assignments[i])])>> >>)
    IN  JObject(<< <<"event", StringifyEvent(gs.event)>>,
                   <<"personnel", StringifyPersonnel(gs.personnel)>>,
                   <<"shifts", StringifyShifts(gs.shifts)>>,
                   <<"schedule", JArray([i \in 1..Len(gs.schedule) |->
                                            Match(gs.schedule[i])])>> >>)

\* exportFullSchedule: JSON.stringify(generatedSchedule, null, 2)
exportFullSchedule(gs) ==
    JObject(<< <<"event", StringifyEvent(gs.event)>>,
               <<"personnel", StringifyPersonnel(gs.personnel)>>,
               <<"shifts", StringifyShifts(gs.shifts)>>,
               <<"schedule", JArray([i \in 1..Len(gs.schedule) |->
                                        StringifyMatch(gs.schedule[i])])>> >>)

\* The keys of an object and the value of a key (the last member of that key).
Keys(obj) == {obj.members[i][1] : i \in 1..Len(obj.members)}
Member(obj, key) ==
    obj.members[CHOOSE i \in 1..Len(obj.members) :
                   /\ obj.members[i][1] = key
                   /\ \A k \in (i + 1)..Len(obj.members) : obj.members[k][1] # key][2]

\* JSON.parse on a value tree: null, numbers and strings are themselves, an array is
\* the sequence of its parsed items, an object has one property per key.
RECURSIVE ParseValue(_)
ParseValue(j) ==
    CASE j.type = "null" -> None
      [] j.type = "number" -> j.value
      [] j.type = "string" -> j.value
      [] j.type = "array" -> [i \in 1..Len(j.items) |-> ParseValue(j.items[i])]
      [] j.type = "object" -> [k \in Keys(j) |-> ParseValue(Member(j, k))]

\* !parsed.key: the property is absent, null, 0 or ''.
Falsy(obj, key) ==
    \/ key \notin Keys(obj)
    \/ LET v == Member(obj, key)
       IN  \/ v.type = "null"
           \/ v.type = "number" /\ v.value = 0
           \/ v.type = "string" /\ v.value = ""

\* parseScheduleJSON: null when JSON.parse throws, when reading a property of the
\* parsed value throws or gives nothing, or when one of the four sections is falsy;
\* otherwise the parsed value as it is.
parseScheduleJSON(jsonString) ==
    IF jsonString.type # "object" THEN None
    ELSE IF \/ Falsy(jsonString, "event")
            \/ Falsy(jsonString, "personnel")
            \/ Falsy(jsonString, "shifts")
            \/ Falsy(jsonString, "schedule")
         THEN None
         ELSE Some(ParseValue(jsonString))

----------------------------------------------------------------------------
(* Inputs. *)

\* Break point values around the valid range 1..totalMatches-1, below and above it.
BreakValues == -1 .. MaxMatches + 1

DefaultEvent(total, teams) ==
    [totalMatches |-> total, teamsPerMatch |-> teams,
     allianceBlue |-> "Blue", allianceRed |-> "Red"]

NoPersonnel == [leadScouters |-> <<>>, scouters |-> <<>>, cameras |-> <<>>]

ScouterPool == <<"A", "B", "C", "D", "E", "F", "G">>
LeadPool == <<"L1", "L2", "L3", "L4">>
CameraPool == <<"K1", "K2", "K3">>

\* Scouter rosters of n names: n distinct names, or the same with one name blank
\* (all whitespace), or with one name a duplicate of another.
Rosters(n) ==
    LET distinct == SubSeq(ScouterPool, 1, n)
    IN  {distinct}
            \cup {[distinct EXCEPT ![i] = " "] : i \in 1..n}
            \cup {[distinct EXCEPT ![i] = distinct[IF i = 1 THEN n ELSE 1]] : i \in 1..n}

ScouterRosters == UNION {Rosters(n) : n \in 0..MaxScouters}

\* No lead scouter / camera operator at all, or a full roster of them.
LeadRosters == {<<>>, SubSeq(LeadPool, 1, MaxLeads)}
CameraRosters == {<<>>, SubSeq(CameraPool, 1, MaxCameras)}

PersonnelChoices ==
    {[leadScouters |-> l, scouters |-> r, cameras |-> k] :
        l \in LeadRosters, r \in ScouterRosters, k \in CameraRosters}

\* maxMatchesPerScouter: null, or a limit of the dialog's number input (min = 1).
CapChoices == {None} \cup {Some(c) : c \in 1..MaxCap}

\* Break point lists of the dialog: values in any relation to totalMatches, ascending
\* or equal (calculateTurns sorts; its sorting is exercised under SpecTurns).
ShiftBreaks ==
    {b \in BoundedSeq(1..MaxMatches, MaxShiftBreaks) :
        \A i \in 1..(Len(b) - 1) : b[i] <= b[i + 1]}

\* Even team counts: 1..MaxAlliance teams per alliance.
TeamCounts == {2 * n : n \in 1..MaxAlliance}

\* calculateTurns alone: a match count and a raw break point list; the FRC default
\* of the configuration dialog (72 matches, breaks after 20 and 40) is one more input.
InitTurns ==
    /\ \/ \E total \in 1..MaxMatches, bps \in BoundedSeq(BreakValues, MaxBreaks) :
            /\ eventConfig = DefaultEvent(total, 2)
            /\ shiftConfig = [breakPoints |-> bps, turns |-> <<>>]
       \/ /\ eventConfig = DefaultEvent(72, 6)
          /\ shiftConfig = [breakPoints |-> <<20, 40>>, turns |-> <<>>]
    /\ personnel = NoPersonnel
    /\ constraints = [maxMatchesPerScouter |-> None]
    /\ validation = None
    /\ result = None
    /\ query = None
    /\ pc = "input"

\* A call of calculateTurns that sorts the caller's break-point list itself.
CallCalculateTurnsSortInPlace ==
    /\ pc = "input"
    /\ shiftConfig' = [breakPoints |-> SortAsc(shiftConfig.breakPoints),
                       turns |-> calculateTurns(eventConfig.totalMatches,
                                                shiftConfig.breakPoints)]
    /\ pc' = "turns"
    /\ UNCHANGED <<eventConfig, personnel, constraints, validation, result, query>>

\* shiftConfig.turns := calculateTurns(eventConfig.totalMatches, breakPoints)
CallCalculateTurns ==
    /\ pc = "input"
    /\ shiftConfig' = [shiftConfig EXCEPT
                         !.turns = calculateTurns(eventConfig.totalMatches,
                                                  shiftConfig.breakPoints)]
    /\ pc' = "turns"
    /\ UNCHANGED <<eventConfig, personnel, constraints, validation, result, query>>

NextTurns == CallCalculateTurns

SpecTurns == InitTurns /\ [][NextTurns]_vars

----------------------------------------------------------------------------
(* The configuration dialog: handleGenerateSchedule. *)

Init ==
    /\ \E total \in 1..MaxMatches, teams \in TeamCounts :
          eventConfig = DefaultEvent(total, teams)
    /\ personnel \in PersonnelChoices
    /\ \E bps \in ShiftBreaks : shiftConfig = [breakPoints |-> bps, turns |-> <<>>]
    /\ \E c \in CapChoices : constraints = [maxMatchesPerScouter |-> c]
    /\ validation = None
    /\ result = None
    /\ query = None
    /\ pc = "input"

\* handleGenerateSchedule: builds the ShiftConfig from the break points and generates.
HandleGenerateSchedule ==
    /\ pc = "input"
    /\ LET sc == [breakPoints |-> shiftConfig.breakPoints,
                  turns |-> calculateTurns(eventConfig.totalMatches,
                                           shiftConfig.breakPoints)]
       IN  /\ shiftConfig' = sc
           /\ result' = Some(generateSchedule(eventConfig, personnel, sc, constraints))
    /\ pc' = "generated"
    /\ UNCHANGED <<eventConfig, personnel, constraints, validation, query>>

Next == HandleGenerateSchedule

Spec == Init /\ [][Next]_vars

----------------------------------------------------------------------------
(* validateScheduleConfig and generateSchedule called with a ShiftConfig whose   *)
(* turns were not derived by calculateTurns.                                    *)

\* Turns starting inside 1..MaxMatches and ending at or after their start, possibly
\* one past MaxMatches.
TurnRanges ==
    {<<s, e>> \in (1..MaxMatches) \X (1..(MaxMatches + 1)) : s <= e}

TurnLists ==
    {[i \in 1..Len(l) |-> [turn |-> i, startMatch |-> l[i][1], endMatch |-> l[i][2]]] :
        l \in BoundedSeq(TurnRanges, MaxTurns)}

\* Up to two scouters for two positions: too few or enough, with or without a blank
\* name, and one name twice.
ShortRosters == {<<>>, <<"A">>, <<" ">>, <<"A", "B">>, <<"A", " ">>, <<"A", "A">>}

InitValidate ==
    /\ eventConfig = DefaultEvent(MaxMatches, 2)
    /\ \E l \in LeadRosters, r \in ShortRosters, k \in CameraRosters :
          personnel = [leadScouters |-> l, scouters |-> r, cameras |-> k]
    /\ \E t \in TurnLists : shiftConfig = [breakPoints |-> <<>>, turns |-> t]
    /\ \E c \in {None, Some(1), Some(MaxMatches * 2)} :
          constraints = [maxMatchesPerScouter |-> c]
    /\ validation = None
    /\ result = None
    /\ query = None
    /\ pc = "input"

CallValidate ==
    /\ pc = "input"
    /\ validation' = Some(validateScheduleConfig(eventConfig, personnel, shiftConfig,
                                                 constraints))
    /\ pc' = "validated"
    /\ UNCHANGED <<eventConfig, personnel, shiftConfig, constraints, result, query>>

CallGenerate ==
    /\ pc = "validated"
    /\ result' = Some(generateSchedule(eventConfig, personnel, shiftConfig, constraints))
    /\ pc' = "generated"
    /\ UNCHANGED <<eventConfig, personnel, shiftConfig, constraints, validation, query>>

NextValidate == CallValidate \/ CallGenerate

SpecValidate == InitValidate /\ [][NextValidate]_vars

----------------------------------------------------------------------------
(* The scouting screens: queries on the generated schedule and the upload of an *)
(* exported schedule file.                                                       *)

\* Scouter rosters of n names: n distinct names, or the same with one name replaced by
\* the first name or by the first name in lower case.
QueryRosters(n) ==
    LET distinct == SubSeq(ScouterPool, 1, n)
    IN  {distinct}
            \cup {[distinct EXCEPT ![i] = distinct[1]] : i \in 2..n}
            \cup {[distinct EXCEPT ![i] = ToLowerCase(distinct[1])] : i \in 2..n}

InitQuery ==
    /\ \E total \in 1..MaxMatches, teams \in TeamCounts :
          eventConfig = DefaultEvent(total, teams)
    /\ \E n \in 1..MaxScouters : \E roster \in QueryRosters(n) :
          personnel = [leadScouters |-> SubSeq(LeadPool, 1, MaxLeads),
                       scouters |-> roster,
                       cameras |-> SubSeq(CameraPool, 1, MaxCameras)]
    /\ \E bps \in ShiftBreaks : shiftConfig = [breakPoints |-> bps, turns |-> <<>>]
    /\ constraints = [maxMatchesPerScouter |-> None]
    /\ validation = None
    /\ result = None
    /\ query = None
    /\ pc = "input"

\* The schedule the screens hold after a successful generation.
GeneratedSchedule == result[1].schedule[1]

\* The names a scouter may type: the roster names, in either case, a name that is not
\* on the roster, and nothing.
QueryNames ==
    Range(personnel.scouters) \cup {ToLowerCase(s) : s \in Range(personnel.scouters)}
        \cup {"Z", ""}

QueryMatches == 0..(eventConfig.totalMatches + 1)

\* The position labels of the event and two labels no match has.
QueryPositions ==
    Range(getPositions(eventConfig))
        \cup {Label(eventConfig.allianceBlue, TeamsPerAlliance(eventConfig) + 1),
              Label("Green", 1)}

Call(fn, args, value) ==
    /\ query' = Some([fn |-> fn, args |-> args, value |-> value])
    /\ pc' = "queried"
    /\ UNCHANGED <<eventConfig, personnel, shiftConfig, constraints, validation, result>>

CanQuery == pc = "generated" /\ result[1].success

CallGetScouterAssignments ==
    /\ CanQuery
    /\ \E name \in QueryNames :
          Call("getScouterAssignments", <<name>>,
               getScouterAssignments(GeneratedSchedule, name))

CallIsLastMatchOfTurn ==
    /\ CanQuery
    /\ \E m \in QueryMatches, name \in QueryNames :
          Call("isLastMatchOfTurn", <<m, name>>,
               isLastMatchOfTurn(GeneratedSchedule, m, name))

CallGetNextScouterForPosition ==
    /\ CanQuery
    /\ \E m \in QueryMatches, position \in QueryPositions :
          Call("getNextScouterForPosition", <<m, position>>,
               getNextScouterForPosition(GeneratedSchedule, m, position))

CallGetScouterStats ==
    /\ CanQuery
    /\ Call("getScouterStats", <<>>, getScouterStats(GeneratedSchedule))

\* The files a user may pick: the export of the schedule on screen, the same without
\* its schedule section, the JSON text null, and a text that is not JSON.
UploadedFiles ==
    LET exported == exportFullSchedule(GeneratedSchedule)
    IN  {exported,
         JObject(SelectSeq(exported.members, LAMBDA member : member[1] # "schedule")),
         JNull,
         Malformed}

\* handleGeneratedScheduleUpload: the parsed file replaces the schedule on screen, an
\* invalid file leaves it (and raises an alert).
HandleGeneratedScheduleUpload ==
    /\ CanQuery
    /\ \E content \in UploadedFiles :
          LET parsed == parseScheduleJSON(content)
          IN  /\ query' = Some([fn |-> "parseScheduleJSON", args |-> <<content>>,
                                value |-> parsed])
              /\ result' = IF parsed # None
                           THEN Some([result[1] EXCEPT !.schedule = parsed])
                           ELSE result
    /\ pc' = "queried"
    /\ UNCHANGED <<eventConfig, personnel, shiftConfig, constraints, validation>>

NextQuery ==
    \/ HandleGenerateSchedule
    \/ CallGetScouterAssignments
    \/ CallIsLastMatchOfTurn
    \/ CallGetNextScouterForPosition
    \/ CallGetScouterStats
    \/ HandleGeneratedScheduleUpload

SpecQuery == InitQuery /\ [][NextQuery]_vars

----------------------------------------------------------------------------
(* getPositions alone: the event fields of the configuration dialog, where Teams Per *)
(* Match is any number typed in and the alliance names are free text.               *)

AllianceNames == {"Blue", "Red", "Gold"}

InitPositions ==
    /\ \E total \in 1..MaxMatches, teams \in 0..(2 * MaxAlliance + 1),
           blue \in AllianceNames, red \in AllianceNames :
          eventConfig = [DefaultEvent(total, teams) EXCEPT !.allianceBlue = blue,
                                                          !.allianceRed = red]
    /\ personnel = NoPersonnel
    /\ shiftConfig = [breakPoints |-> <<>>, turns |-> <<>>]
    /\ constraints = [maxMatchesPerScouter |-> None]
    /\ validation = None
    /\ result = None
    /\ query = None
    /\ pc = "input"

CallGetPositions ==
    /\ pc = "input"
    /\ query' = Some([fn |-> "getPositions", args |-> <<eventConfig>>,
                      value |-> getPositions(eventConfig)])
    /\ pc' = "queried"
    /\ UNCHANGED <<eventConfig, personnel, shiftConfig, constraints, validation, result>>

NextPositions == CallGetPositions

SpecPositions == InitPositions /\ [][NextPositions]_vars

----------------------------------------------------------------------------
(* The three core functions called one after the other on the caller's values:    *)
(* calculateTurns on a raw break-point list, then validateScheduleConfig and       *)
(* generateSchedule on the resulting ShiftConfig.                                  *)

InitCalls ==
    /\ \E total \in 1..MaxMatches : eventConfig = DefaultEvent(total, 2)
    /\ \E n \in 1..MaxScouters : \E roster \in QueryRosters(n) :
          personnel = [leadScouters |-> SubSeq(LeadPool, 1, MaxLeads),
                       scouters |-> roster,
                       cameras |-> SubSeq(CameraPool, 1, MaxCameras)]
    /\ \E bps \in BoundedSeq(BreakValues, MaxShiftBreaks) :
          shiftConfig = [breakPoints |-> bps, turns |-> <<>>]
    /\ constraints = [maxMatchesPerScouter |-> None]
    /\ validation = None
    /\ result = None
    /\ query = None
    /\ pc = "input"

CallValidateTurns ==
    /\ pc = "turns"
    /\ validation' = Some(validateScheduleConfig(eventConfig, personnel, shiftConfig,
                                                 constraints))
    /\ pc' = "validated"
    /\ UNCHANGED <<eventConfig, personnel, shiftConfig, constraints, result, query>>

NextCalls == CallCalculateTurns \/ CallValidateTurns \/ CallGenerate

SpecCalls == InitCalls /\ [][NextCalls]_vars

----------------------------------------------------------------------------
(* Both generators on the same six-position event (the FRC default of the dialog). *)

MaxSpare == 1

SixPositionPool == ScouterPool \o <<"H", "I", "J">>

\* Rosters of n names for six positions: distinct names, or the last name a repeat of
\* the first.
SixPositionRosters(n) ==
    LET distinct == SubSeq(SixPositionPool, 1, n)
    IN  {distinct, [distinct EXCEPT ![n] = distinct[1]]}

InitGenerators ==
    /\ \E total \in 1..MaxMatches : eventConfig = DefaultEvent(total, Len(POSITIONS))
    /\ \E n \in Len(POSITIONS)..(Len(POSITIONS) + MaxSpare) :
          \E roster \in SixPositionRosters(n) :
              personnel = [leadScouters |-> SubSeq(LeadPool, 1, MaxLeads),
                           scouters |-> roster,
                           cameras |-> SubSeq(CameraPool, 1, MaxCameras)]
    /\ \E bps \in ShiftBreaks : shiftConfig = [breakPoints |-> bps, turns |-> <<>>]
    /\ \E c \in CapChoices : constraints = [maxMatchesPerScouter |-> c]
    /\ validation = None
    /\ result = None
    /\ query = None
    /\ pc = "input"

\* handleGenerateSchedule with the per-match generateSchedule.
HandleGenerateSchedulePerMatch ==
    /\ pc = "input"
    /\ LET sc == [breakPoints |-> shiftConfig.breakPoints,
                  turns |-> calculateTurns(eventConfig.totalMatches,
                                           shiftConfig.breakPoints)]
       IN  /\ shiftConfig' = sc
           /\ result' = Some(generateSchedulePerMatch(eventConfig, personnel, sc,
                                                      constraints))
    /\ query' = Some([fn |-> "generateSchedule", args |-> <<"per-match">>,
                      value |-> None])
    /\ pc' = "generated"
    /\ UNCHANGED <<eventConfig, personnel, constraints, validation>>

NextGenerators == HandleGenerateSchedule \/ HandleGenerateSchedulePerMatch

SpecGenerators == InitGenerators /\ [][NextGenerators]_vars

----------------------------------------------------------------------------
(* Properties of calculateTurns (checked under SpecTurns). *)

TotalMatches == eventConfig.totalMatches
BreakPoints == shiftConfig.breakPoints
Turns == shiftConfig.turns

\* The turns that contain match number m.
TurnsCovering(turns, m) ==
    {i \in 1..Len(turns) : turns[i].startMatch <= m /\ m <= turns[i].endMatch}

\* A break point the specification calls valid: strictly between 0 and totalMatches.
ValidBreak(b) == b \in 1..(TotalMatches - 1)

AllBreaksValid == \A j \in 1..Len(BreakPoints) : ValidBreak(BreakPoints[j])

\* C1: for break points that all lie in 1..totalMatches-1, given in any order, the
\* turns of calculateTurns partition [1, totalMatches]: the first turn starts at 1,
\* the last ends at totalMatches, every later turn starts at the previous endMatch + 1,
\* no turn reaches outside [1, totalMatches] and every match number is in exactly one turn.
C1_TurnsPartition ==
    (pc = "turns" /\ AllBreaksValid) =>
        /\ Len(Turns) >= 1
        /\ Turns[1].startMatch = 1
        /\ Turns[Len(Turns)].endMatch = TotalMatches
        /\ \A i \in 2..Len(Turns) : Turns[i].startMatch = Turns[i - 1].endMatch + 1
        /\ \A i \in 1..Len(Turns) : Turns[i].startMatch >= 1 /\ Turns[i].endMatch <= TotalMatches
        /\ \A m \in 1..TotalMatches : Cardinality(TurnsCovering(Turns, m)) = 1

\* Two valid break points given in descending order produced three turns.
C1_Witness ==
    /\ pc = "turns"
    /\ AllBreaksValid
    /\ Len(BreakPoints) = 2
    /\ BreakPoints[1] > BreakPoints[2]
    /\ Len(Turns) = 3

\* A value calculateTurns is said to drop: <= 0 or >= totalMatches.
DroppedBreak(b) == b <= 0 \/ b >= TotalMatches

SameAsRestricted ==
    Turns = calculateTurns(TotalMatches, SelectSeq(BreakPoints, ValidBreak))

\* C9 as stated: calculateTurns(totalMatches, B) equals calculateTurns on B restricted to
\* 1..totalMatches-1, and no dropped value is the endMatch of a non-final turn or the
\* startMatch - 1 of ANY turn (the first turn included).
C9_Original ==
    pc = "turns" =>
        /\ SameAsRestricted
        /\ \A j \in 1..Len(BreakPoints) :
              DroppedBreak(BreakPoints[j]) =>
                  /\ \A i \in 1..(Len(Turns) - 1) : Turns[i].endMatch # BreakPoints[j]
                  /\ \A i \in 1..Len(Turns) : Turns[i].startMatch - 1 # BreakPoints[j]

\* C9 (amended): calculateTurns(totalMatches, B) equals calculateTurns on B restricted to
\* 1..totalMatches-1, and no dropped value is the endMatch of a non-final turn or the
\* startMatch - 1 of a turn after the first (the first turn always starts at 1, so a
\* dropped 0 is its startMatch - 1).
C9_DroppedBreaksIgnored ==
    pc = "turns" =>
        /\ SameAsRestricted
        /\ \A j \in 1..Len(BreakPoints) :
              DroppedBreak(BreakPoints[j]) =>
                  /\ \A i \in 1..(Len(Turns) - 1) : Turns[i].endMatch # BreakPoints[j]
                  /\ \A i \in 2..Len(Turns) : Turns[i].startMatch - 1 # BreakPoints[j]

\* A list with a value <= 0, a value >= totalMatches and a valid value was processed.
C9_Witness ==
    /\ pc = "turns"
    /\ \E j \in 1..Len(BreakPoints) : BreakPoints[j] <= 0
    /\ \E j \in 1..Len(BreakPoints) : BreakPoints[j] >= TotalMatches
    /\ \E j \in 1..Len(BreakPoints) : ValidBreak(BreakPoints[j])
    /\ Len(Turns) = 2

\* How often v occurs in the break point list / as the end of one of the first k turns.
BreakOccurrences(v) == Cardinality({j \in 1..Len(BreakPoints) : BreakPoints[j] = v})
EndOccurrences(v, k) == Cardinality({i \in 1..k : Turns[i].endMatch = v})

\* C10: calculateTurns returns at least one turn, numbered 1, 2, ..., n in list order;
\* with k surviving break points it returns k + 1 turns, the ends of the first k turns
\* are the surviving break points in ascending order, turn i + 1 starts at the end of
\* turn i plus one, turn 1 starts at 1 and turn k + 1 ends at totalMatches; 72 matches
\* with breaks [20, 40] give (1,1,20), (2,21,40), (3,41,72).
C10_TurnsFromBreaks ==
    pc = "turns" =>
        LET k == Cardinality({j \in 1..Len(BreakPoints) : ValidBreak(BreakPoints[j])})
        IN  /\ Len(Turns) >= 1
            /\ \A i \in 1..Len(Turns) : Turns[i].turn = i
            /\ Len(Turns) = k + 1
            /\ \A i \in 1..(k - 1) : Turns[i].endMatch <= Turns[i + 1].endMatch
            /\ \A v \in 1..(TotalMatches - 1) : EndOccurrences(v, k) = BreakOccurrences(v)
            /\ \A i \in 1..k : Turns[i + 1].startMatch = Turns[i].endMatch + 1
            /\ Turns[1].startMatch = 1
            /\ Turns[k + 1].endMatch = TotalMatches
            /\ (TotalMatches = 72 /\ BreakPoints = <<20, 40>>) =>
                  Turns = << [turn |-> 1, startMatch |-> 1, endMatch |-> 20],
                             [turn |-> 2, startMatch |-> 21, endMatch |-> 40],
                             [turn |-> 3, startMatch |-> 41, endMatch |-> 72] >>

\* The documented example was computed: three turns for 72 matches.
C10_Witness ==
    /\ pc = "turns"
    /\ TotalMatches = 72
    /\ BreakPoints = <<20, 40>>
    /\ Len(Turns) = 3
    /\ Turns[2].startMatch = 21

----------------------------------------------------------------------------
(* Properties of validateScheduleConfig and generateSchedule. *)

Scouters == personnel.scouters
PositionsPerMatch == Len(getPositions(eventConfig))
Cap == constraints.maxMatchesPerScouter

\* The result of the last generateSchedule call and the list of the last validator call.
Res == result[1]
Val == validation[1]

\* The MatchSchedule list of a successful result.
Schedule == Res.schedule[1].schedule

HasMessage(list, message) == \E i \in 1..Len(list) : list[i].message = message
MessageCount(list, message) == Cardinality({i \in 1..Len(list) : list[i].message = message})

\* The matches of the schedule in which the name holds some position.
MatchesOf(name) ==
    {i \in 1..Len(Schedule) :
        \E j \in 1..Len(Schedule[i].assignments) : Schedule[i].assignments[j].scouter = name}

DistinctNames == \A i, j \in 1..Len(Scouters) : Scouters[i] = Scouters[j] => i = j

\* C2: in every successful result produced with maxMatchesPerScouter = c (non-null), no
\* scouter name is assigned to more than c matches of the returned schedule (stated
\* here for rosters of distinct names, where a name is one person).
C2_CapHonoured ==
    (pc = "generated" /\ Res.success /\ Cap # None /\ DistinctNames) =>
        \A i \in 1..Len(Scouters) : Cardinality(MatchesOf(Scouters[i])) <= Cap[1]

\* Some match number of 1..totalMatches is covered by no turn.
HasGap == \E m \in 1..TotalMatches : TurnsCovering(Turns, m) = {}
\* Some match number is covered by more than one turn.
HasOverlap ==
    \E i, j \in 1..Len(Turns) :
        /\ i # j
        /\ \E m \in Turns[i].startMatch..Turns[i].endMatch :
              Turns[j].startMatch <= m /\ m <= Turns[j].endMatch
\* Some turn covers a match number outside 1..totalMatches.
CoversOutside ==
    \E i \in 1..Len(Turns) :
        \E m \in Turns[i].startMatch..Turns[i].endMatch : m \notin 1..TotalMatches

Rejected ==
    /\ pc \in {"validated", "generated"} => Len(Val) >= 1
    /\ pc = "generated" => (~Res.success /\ Res.schedule = None)

\* C3 as stated: the validator returns an error whenever the turn list has a gap, two
\* overlapping turns, or a turn reaching outside [1, totalMatches], and generateSchedule
\* never succeeds on such a list.
C3_Original ==
    (pc \in {"validated", "generated"} /\ (HasGap \/ HasOverlap \/ CoversOutside)) => Rejected

\* C3 (amended): the validator returns an error whenever the turn list leaves a match
\* number of [1, totalMatches] uncovered (a gap, or no turn at all), and generateSchedule
\* never succeeds on such a list; overlapping turns and turns reaching outside
\* [1, totalMatches] are accepted.
C3_GapRejected ==
    (pc \in {"validated", "generated"} /\ HasGap) => Rejected

\* A two-turn list with a gap as its only defect was validated and generation refused it.
C3_Witness ==
    /\ pc = "generated"
    /\ HasGap
    /\ Len(Turns) = 2
    /\ Len(Val) = 1
    /\ Val[1].message = "Gaps in turn coverage"
    /\ ~Res.success

OtherRosterChecksPass ==
    /\ \A i \in 1..Len(Scouters) : Trim(Scouters[i]) # ""
    /\ Len(personnel.leadScouters) >= 1
    /\ Len(personnel.cameras) >= 1

AllAssignments(schedule) ==
    {<<i, j>> \in (1..Len(schedule)) \X (1..PositionsPerMatch) :
        j <= Len(schedule[i].assignments)}

\* C4: with a roster of exactly positionsPerMatch scouters, all names non-blank, at
\* least one lead scouter and one camera operator, turns from calculateTurns and
\* maxMatchesPerScouter = null, generateSchedule succeeds, emits no "No available
\* scouter" warning and every assignment of every match has a non-empty scouter.
C4_ExactRosterFullyAssigned ==
    (/\ pc = "generated"
     /\ Len(Scouters) = PositionsPerMatch
     /\ OtherRosterChecksPass
     /\ Cap = None) =>
        /\ Res.success
        /\ ~HasMessage(Res.warnings, "No available scouter")
        /\ \A ij \in AllAssignments(Schedule) :
              Schedule[ij[1]].assignments[ij[2]].scouter # ""

\* C5: generateSchedule returns success = true with a non-null schedule and no errors
\* exactly when validateScheduleConfig returns no error for the same inputs; otherwise
\* success = false, schedule = null and the validator's errors.  After a passing
\* validation a slot nobody can fill is an empty-scouter assignment with a warning.
C5_SuccessIffValid ==
    pc = "generated" =>
        /\ Res.success <=> (Val = <<>>)
        /\ Res.success =>
              /\ Res.schedule # None
              /\ Res.errors = <<>>
              /\ (\E ij \in AllAssignments(Schedule) :
                      Schedule[ij[1]].assignments[ij[2]].scouter = "")
                    => HasMessage(Res.warnings, "No available scouter")
        /\ ~Res.success =>
              /\ Res.schedule = None
              /\ Res.errors = Val

\* Validation passed, a slot stayed empty, and the result is a success with a warning.
C5_Witness ==
    /\ pc = "generated"
    /\ Val = <<>>
    /\ Res.success
    /\ \E ij \in AllAssignments(Schedule) : Schedule[ij[1]].assignments[ij[2]].scouter = ""
    /\ HasMessage(Res.warnings, "No available scouter")

CapError == "Max matches constraint cannot be satisfied"
Requirement == TotalMatches * PositionsPerMatch
Capacity == Len(Scouters) * Cap[1]

\* C6: with every other check satisfied and a cap c, generateSchedule succeeds if and
\* only if scouters.length * c >= totalMatches * positionsPerMatch; below that the
\* "Max matches constraint cannot be satisfied" error is returned with both figures and
\* there is no schedule.  With c = null the error is never returned.
C6_CapFeasibility ==
    pc = "generated" =>
        /\ (/\ Cap # None
            /\ OtherRosterChecksPass
            /\ Len(Scouters) >= PositionsPerMatch
            /\ ~HasGap) =>
              /\ Res.success <=> (Capacity >= Requirement)
              /\ Capacity < Requirement =>
                    /\ \E i \in 1..Len(Res.errors) :
                          /\ Res.errors[i].message = CapError
                          /\ Res.errors[i].details = <<Requirement, Capacity>>
                    /\ Res.schedule = None
        /\ Cap = None => ~HasMessage(Res.errors, CapError)

\* An infeasible cap was the only defect and generation was refused with that error.
C6_Witness ==
    /\ pc = "generated"
    /\ Cap # None
    /\ OtherRosterChecksPass
    /\ Len(Scouters) >= PositionsPerMatch
    /\ ~HasGap
    /\ Capacity < Requirement
    /\ Len(Res.errors) = 1
    /\ Res.errors[1].message = CapError

\* No check other than the roster size has its condition violated.
OnlyRosterSizeAtFault ==
    /\ OtherRosterChecksPass
    /\ Cap # None => Capacity >= Requirement
    /\ \A m \in 1..TotalMatches : TurnsCovering(Turns, m) # {}

\* C7: whenever scouters.length < positionsPerMatch the validator's list holds exactly
\* one error with the message "Not enough scouters" (it is the whole list when no other
\* check fails; errors of other checks may accompany it), and generateSchedule returns
\* success = false with schedule = null, no MatchSchedule built.
C7_NotEnoughScouters ==
    (Len(Scouters) < PositionsPerMatch) =>
        /\ pc \in {"validated", "generated"} =>
              /\ MessageCount(Val, "Not enough scouters") = 1
              /\ OnlyRosterSizeAtFault => Len(Val) = 1
        /\ pc = "generated" => (~Res.success /\ Res.schedule = None)

\* A roster one short, otherwise valid: the validator returned just that error and
\* generation was refused.
C7_Witness ==
    /\ pc = "generated"
    /\ Len(Scouters) = PositionsPerMatch - 1
    /\ Len(Val) = 1
    /\ Val[1].message = "Not enough scouters"
    /\ ~Res.success

CoverageErrors(list) ==
    {i \in 1..Len(list) :
        list[i].message \in {"Gaps in turn coverage", "No turns defined"}}

LowestUncovered ==
    CHOOSE m \in 1..TotalMatches :
        /\ TurnsCovering(Turns, m) = {}
        /\ \A n \in 1..(m - 1) : TurnsCovering(Turns, n) # {}

EachCheckIndependent ==
    /\ HasMessage(Val, "Not enough scouters") <=> (Len(Scouters) < PositionsPerMatch)
    /\ HasMessage(Val, "Empty scouter names")
          <=> (\E i \in 1..Len(Scouters) : Trim(Scouters[i]) = "")
    /\ HasMessage(Val, "No lead scouters") <=> (Len(personnel.leadScouters) = 0)
    /\ HasMessage(Val, "No camera operators") <=> (Len(personnel.cameras) = 0)
    /\ HasMessage(Val, CapError) <=> (Cap # None /\ Capacity < Requirement)
    /\ (CoverageErrors(Val) # {}) <=> HasGap
    /\ Cardinality(CoverageErrors(Val)) <= 1
    /\ \A m \in {"Not enough scouters", "Empty scouter names", "No lead scouters",
                 "No camera operators", CapError} : MessageCount(Val, m) <= 1

\* C8 as stated: every check's error is in the list if and only if that check's own
\* condition is violated, and the coverage check contributes at most one error, which
\* names the lowest uncovered match number.
C8_Original ==
    pc = "validated" =>
        /\ EachCheckIndependent
        /\ \A i \in CoverageErrors(Val) : Val[i].details = <<LowestUncovered>>

\* C8 (amended): every check's error is in the list if and only if that check's own
\* condition is violated, and the coverage check contributes at most one error: "No
\* turns defined", naming no match, when the turn list is empty, and otherwise
\* "Gaps in turn coverage" naming the lowest uncovered match number.
C8_ChecksIndependent ==
    pc = "validated" =>
        /\ EachCheckIndependent
        /\ \A i \in CoverageErrors(Val) :
              IF Len(Turns) = 0
              THEN Val[i].message = "No turns defined" /\ Val[i].details = <<>>
              ELSE /\ Val[i].message = "Gaps in turn coverage"
                   /\ Val[i].details = <<LowestUncovered>>

\* Every check failed at once, with two uncovered matches, and six errors came back.
C8_Witness ==
    /\ pc = "validated"
    /\ Len(Val) = 6
    /\ Cardinality({m \in 1..TotalMatches : TurnsCovering(Turns, m) = {}}) >= 2
    /\ Len(Turns) >= 1

----------------------------------------------------------------------------
(* Properties of the generated schedule (turn-scoped generator). *)

Generated == pc = "generated" /\ Res.success

\* The entries of the schedule whose match number lies in the range of turn i.
MatchesOfTurn(i) ==
    {k \in 1..Len(Schedule) :
        Turns[i].startMatch <= Schedule[k].matchNumber
            /\ Schedule[k].matchNumber <= Turns[i].endMatch}

C12_SameAssignmentsInTurn ==
    Generated =>
        \A t \in 1..Len(Turns) : \A k1, k2 \in MatchesOfTurn(t) :
            Schedule[k1].assignments = Schedule[k2].assignments

\* A turn of two matches was generated, followed by a turn with other scouters.
C12_Witness ==
    /\ Generated
    /\ Len(Turns) = 2
    /\ Cardinality(MatchesOfTurn(1)) = 2
    /\ Schedule[1].assignments = Schedule[2].assignments
    /\ Schedule[3].assignments # Schedule[1].assignments

\* The turns-assigned counters as they stand when turn t starts.
TurnCountsAtStart(t) ==
    GenerateTurns(t - 1, Turns, personnel, getPositions(eventConfig)).scouterTurnCounts

\* Roster entry i comes before entry k: fewer turns assigned, or as many and earlier
\* in the roster.
ComesBefore(i, k, counts) ==
    \/ counts[Scouters[i]] < counts[Scouters[k]]
    \/ counts[Scouters[i]] = counts[Scouters[k]] /\ i < k

\* The roster in that order.
StablySorted(counts) ==
    [r \in 1..Len(Scouters) |->
        Scouters[CHOOSE i \in 1..Len(Scouters) :
                    Cardinality({k \in 1..Len(Scouters) : ComesBefore(k, i, counts)}) = r - 1]]

\* The first name of the sorted list that none of the positions before j holds, or ''.
FirstUnused(sorted, assignments, j) ==
    LET used == {assignments[q].scouter : q \in 1..(j - 1)}
        free == {r \in 1..Len(sorted) : sorted[r] \notin used}
    IN  IF free = {} THEN ""
        ELSE sorted[CHOOSE r \in free : \A q \in free : r <= q]

\* C13: in each turn, with the roster sorted stably by ascending turns-assigned count as
\* it stood at the start of the turn, position j is assigned the first scouter of the
\* sorted list not already used in this turn; for distinct names that is the j-th
\* element of the sorted list, and in the first turn it is roster entry j.
C13_FairnessOrder ==
    Generated =>
        \A t \in 1..Len(Turns) : \A k \in MatchesOfTurn(t) :
            LET sorted == StablySorted(TurnCountsAtStart(t))
            IN  \A j \in 1..PositionsPerMatch :
                    /\ Schedule[k].assignments[j].scouter
                          = FirstUnused(sorted, Schedule[k].assignments, j)
                    /\ DistinctNames => Schedule[k].assignments[j].scouter = sorted[j]
                    /\ (DistinctNames /\ t = 1) =>
                          Schedule[k].assignments[j].scouter = Scouters[j]

\* Three distinct scouters for two positions: the second turn starts with the scouter
\* left out of the first, then takes the first roster entry again.
C13_Witness ==
    /\ Generated
    /\ DistinctNames
    /\ Len(Scouters) = 3
    /\ PositionsPerMatch = 2
    /\ Len(Turns) = 2
    /\ Schedule[Len(Schedule)].matchNumber = Turns[2].endMatch
    /\ Schedule[Len(Schedule)].assignments[1].scouter = Scouters[3]
    /\ Schedule[Len(Schedule)].assignments[2].scouter = Scouters[1]

----------------------------------------------------------------------------
(* Properties of the query layer (checked under SpecQuery). *)

Queried(fn) == pc = "queried" /\ query[1].fn = fn
Args == query[1].args
Value == query[1].value

\* Two names are the same but for the case of their letters.
EqualIgnoringCase(a, b) == ToLowerCase(a) = ToLowerCase(b)

\* Some match of turn t has an assignment carrying exactly the name s.
AssignedIn(t, s) ==
    \E k \in MatchesOfTurn(t) : \E j \in 1..Len(Schedule[k].assignments) :
        Schedule[k].assignments[j].scouter = s

\* Some match of turn t has an assignment carrying the name s but for case.
AssignedInIgnoringCase(t, s) ==
    \E k \in MatchesOfTurn(t) : \E j \in 1..Len(Schedule[k].assignments) :
        EqualIgnoringCase(Schedule[k].assignments[j].scouter, s)

Contains(t, m) == Turns[t].startMatch <= m /\ m <= Turns[t].endMatch

IsLast(t) == [isLast |-> TRUE, turnNumber |-> Some(Turns[t].turn)]
NotLast == [isLast |-> FALSE, turnNumber |-> None]

\* C15 as stated: for a roster scouter s assigned in turn t, isLastMatchOfTurn at
\* t.endMatch returns (true, t.turn) and at an earlier match of t (false, null); for a
\* roster scouter not assigned in the turn containing m it returns (false, null).
C15_Original ==
    (Queried("isLastMatchOfTurn") /\ Args[2] \in Range(Scouters)) =>
        \A t \in 1..Len(Turns) :
            /\ (AssignedIn(t, Args[2]) /\ Args[1] = Turns[t].endMatch) => Value = IsLast(t)
            /\ (AssignedIn(t, Args[2]) /\ Contains(t, Args[1])
                    /\ Args[1] < Turns[t].endMatch) => Value = NotLast
            /\ (Contains(t, Args[1]) /\ ~AssignedIn(t, Args[2])) => Value = NotLast

\* C15 (amended): with "assigned" read as "some assignment of the turn carries the name
\* ignoring case": for any queried name s so assigned in turn t, isLastMatchOfTurn at
\* t.endMatch returns (true, t.turn) and at an earlier match of t (false, null); for a
\* name that no assignment of the turn containing m carries, ignoring case, and for a
\* match number outside every turn, it returns (false, null).
C15_LastMatchOfTurn ==
    Queried("isLastMatchOfTurn") =>
        /\ \A t \in 1..Len(Turns) :
            /\ (AssignedInIgnoringCase(t, Args[2]) /\ Args[1] = Turns[t].endMatch)
                  => Value = IsLast(t)
            /\ (AssignedInIgnoringCase(t, Args[2]) /\ Contains(t, Args[1])
                    /\ Args[1] < Turns[t].endMatch) => Value = NotLast
            /\ (Contains(t, Args[1]) /\ ~AssignedInIgnoringCase(t, Args[2]))
                  => Value = NotLast
        /\ (\A t \in 1..Len(Turns) : ~Contains(t, Args[1])) => Value = NotLast

\* The roster holds "A" and "a"; "a" sits out the second turn, "A" does not, and the
\* query for "a" at the end of the second turn answers (true, 2).
C15_Witness ==
    /\ Queried("isLastMatchOfTurn")
    /\ Len(Turns) = 2
    /\ Args[1] = Turns[2].endMatch
    /\ Args[2] \in Range(Scouters)
    /\ ~AssignedIn(2, Args[2])
    /\ AssignedInIgnoringCase(2, Args[2])
    /\ Value = IsLast(2)

\* The schedule entries numbered m.
MatchesNumbered(m) == {k \in 1..Len(Schedule) : Schedule[k].matchNumber = m}

\* C16: getNextScouterForPosition(schedule, m, p) returns the scouter holding exactly
\* position p in the match numbered m+1, and null when there is no such match (m the
\* final match number in particular), when that match has no assignment for p, or when
\* that assignment's scouter is empty.
C16_NextScouter ==
    Queried("getNextScouterForPosition") =>
        /\ MatchesNumbered(Args[1] + 1) = {} => Value = None
        /\ Args[1] = TotalMatches => Value = None
        /\ \A k \in MatchesNumbered(Args[1] + 1) :
            /\ (\A j \in 1..Len(Schedule[k].assignments) :
                    Schedule[k].assignments[j].position # Args[2]) => Value = None
            /\ \A j \in 1..Len(Schedule[k].assignments) :
                  Schedule[k].assignments[j].position = Args[2] =>
                      Value = IF Schedule[k].assignments[j].scouter = "" THEN None
                              ELSE Some(Schedule[k].assignments[j].scouter)

\* The next match exists and has the position, but nobody holds it; in the same match
\* another position has a scouter.
C16_Witness ==
    /\ Queried("getNextScouterForPosition")
    /\ Value = None
    /\ \E k \in MatchesNumbered(Args[1] + 1) :
          /\ \E j \in 1..Len(Schedule[k].assignments) :
                /\ Schedule[k].assignments[j].position = Args[2]
                /\ Schedule[k].assignments[j].scouter = ""
          /\ \E j \in 1..Len(Schedule[k].assignments) :
                Schedule[k].assignments[j].scouter # ""

\* The matches of turn t with an assignment carrying the name but for case.
MatchesWith(t, name) ==
    {k \in MatchesOfTurn(t) : \E j \in 1..Len(Schedule[k].assignments) :
        EqualIgnoringCase(Schedule[k].assignments[j].scouter, name)}

TurnsWith(name) == {t \in 1..Len(Turns) : MatchesWith(t, name) # {}}

\* C17: getScouterAssignments(schedule, name) compares names ignoring case and returns,
\* in turn-list order, one entry per turn in which some match has an assignment for the
\* name; each entry lists (matchNumber, position, teamNumber, leadScouter) of those
\* matches in ascending match order; turns without such a match are omitted, so no
\* entry has an empty list.
C17_ScouterAssignments ==
    Queried("getScouterAssignments") =>
        /\ Len(Value) = Cardinality(TurnsWith(Args[1]))
        /\ \A i \in 1..Len(Value) :
            /\ Len(Value[i].assignments) > 0
            /\ \E t \in TurnsWith(Args[1]) :
                /\ Cardinality({u \in TurnsWith(Args[1]) : u < t}) = i - 1
                /\ Value[i].turn = Turns[t].turn
                /\ Value[i].startMatch = Turns[t].startMatch
                /\ Value[i].endMatch = Turns[t].endMatch
                /\ Len(Value[i].assignments) = Cardinality(MatchesWith(t, Args[1]))
                /\ \A e \in 1..Len(Value[i].assignments) :
                    /\ e > 1 => Value[i].assignments[e - 1].matchNumber
                                    < Value[i].assignments[e].matchNumber
                    /\ \E k \in MatchesWith(t, Args[1]) :
                        /\ Value[i].assignments[e].matchNumber = Schedule[k].matchNumber
                        /\ Value[i].assignments[e].leadScouter = Schedule[k].leadScouter
                        /\ \E j \in 1..Len(Schedule[k].assignments) :
                            /\ EqualIgnoringCase(Schedule[k].assignments[j].scouter,
                                                 Args[1])
                            /\ Value[i].assignments[e].position
                                  = Schedule[k].assignments[j].position
                            /\ Value[i].assignments[e].teamNumber
                                  = Schedule[k].assignments[j].teamNumber

\* A name typed in lower case for a roster name in upper case: the scouter works the
\* second of two turns only, which has two matches.
C17_Witness ==
    /\ Queried("getScouterAssignments")
    /\ Args[1] \notin Range(Scouters)
    /\ Args[1] # ""
    /\ Len(Turns) = 2
    /\ Len(Value) = 1
    /\ Value[1].turn = 2
    /\ Len(Value[1].assignments) = 2

\* The (match, position) pairs of the schedule with a scouter.
FilledSlots ==
    {<<k, j>> \in (1..Len(Schedule)) \X (1..PositionsPerMatch) :
        Schedule[k].assignments[j].scouter # ""}

RECURSIVE SumOver(_, _)
SumOver(f, S) ==
    IF S = {} THEN 0
    ELSE LET x == CHOOSE x \in S : TRUE IN f[x] + SumOver(f, S \ {x})

\* C18: getScouterStats has a key for exactly the names of the non-empty assignments;
\* totalMatches of a name is the number of assignments carrying exactly that name, its
\* per-position counts sum to totalMatches, and totalMatches summed over the keys is
\* the number of non-empty assignments; empty assignments are never counted.
C18_ScouterStats ==
    Queried("getScouterStats") =>
        /\ DOMAIN Value = {Schedule[s[1]].assignments[s[2]].scouter : s \in FilledSlots}
        /\ "" \notin DOMAIN Value
        /\ \A name \in DOMAIN Value :
            /\ Value[name].totalMatches
                  = Cardinality({s \in FilledSlots :
                                    Schedule[s[1]].assignments[s[2]].scouter = name})
            /\ SumOver(Value[name].positions, DOMAIN Value[name].positions)
                  = Value[name].totalMatches
            /\ \A position \in DOMAIN Value[name].positions :
                  Value[name].positions[position]
                      = Cardinality({s \in FilledSlots :
                            /\ Schedule[s[1]].assignments[s[2]].scouter = name
                            /\ Schedule[s[1]].assignments[s[2]].position = position})
        /\ SumOver([name \in DOMAIN Value |-> Value[name].totalMatches], DOMAIN Value)
              = Cardinality(FilledSlots)

\* A schedule of several matches with an empty assignment and at least two scouters.
C18_Witness ==
    /\ Queried("getScouterStats")
    /\ Len(Schedule) >= 2
    /\ Cardinality(FilledSlots) < Len(Schedule) * PositionsPerMatch
    /\ Cardinality(DOMAIN Value) >= 2

\* The schedule generateSchedule returned for the configuration, whatever the screens
\* hold now.
Original == generateSchedule(eventConfig, personnel, shiftConfig, constraints).schedule[1]

\* C19: for every schedule S of a successful generateSchedule,
\* parseScheduleJSON(exportFullSchedule(S)) is not null and has the event, personnel,
\* shifts and schedule of S, and the four queries return on it what they return on S.
C19_RoundTrip ==
    (Queried("parseScheduleJSON") /\ Args[1] = exportFullSchedule(Original)) =>
        /\ Value # None
        /\ Value[1].event = Original.event
        /\ Value[1].personnel = Original.personnel
        /\ Value[1].shifts = Original.shifts
        /\ Value[1].schedule = Original.schedule
        /\ \A name \in QueryNames :
              getScouterAssignments(Value[1], name) = getScouterAssignments(Original, name)
        /\ \A m \in QueryMatches, name \in QueryNames :
              isLastMatchOfTurn(Value[1], m, name) = isLastMatchOfTurn(Original, m, name)
        /\ \A m \in QueryMatches, position \in QueryPositions :
              getNextScouterForPosition(Value[1], m, position)
                  = getNextScouterForPosition(Original, m, position)
        /\ getScouterStats(Value[1]) = getScouterStats(Original)

\* The export of a schedule of three matches in two turns with an empty assignment
\* (scouter '', teamNumber null) was uploaded and accepted.
C19_Witness ==
    /\ Queried("parseScheduleJSON")
    /\ Args[1] = exportFullSchedule(Original)
    /\ Value # None
    /\ Len(Original.schedule) = 3
    /\ Len(Original.shifts.turns) = 2
    /\ \E j \in 1..PositionsPerMatch : Original.schedule[1].assignments[j].scouter = ""
    /\ result[1].schedule = Value

----------------------------------------------------------------------------
(* Properties of the audit after generation (checked under SpecValidate). *)

\* The (match, position) pairs of the schedule without a scouter.
EmptySlots ==
    {<<k, j>> \in (1..Len(Schedule)) \X (1..PositionsPerMatch) :
        Schedule[k].assignments[j].scouter = ""}

UnassignedMessage == "positions left unassigned"

\* C20: the aggregate 'positions left unassigned' warning is emitted at most once,
\* exactly when some assignment of the schedule has an empty scouter; its count is the
\* number of empty-scouter assignments over all matches, it lists min(5, count)
\* examples, and the truncation marker is present exactly when count > 5.
C20_UnassignedWarning ==
    Generated =>
        /\ MessageCount(Res.warnings, UnassignedMessage) <= 1
        /\ HasMessage(Res.warnings, UnassignedMessage) <=> EmptySlots # {}
        /\ \A i \in 1..Len(Res.warnings) :
              Res.warnings[i].message = UnassignedMessage =>
                  LET details == Res.warnings[i].details
                      count == Cardinality(EmptySlots)
                  IN  /\ details.count = count
                      /\ Len(details.examples)
                            = IF count < UnassignedExamples THEN count
                              ELSE UnassignedExamples
                      /\ details.truncated <=> count > UnassignedExamples
                      /\ \A e \in 1..Len(details.examples) :
                            \E s \in EmptySlots :
                                /\ details.examples[e].matchNumber
                                      = Schedule[s[1]].matchNumber
                                /\ details.examples[e].position
                                      = Schedule[s[1]].assignments[s[2]].position

\* More than five positions are unassigned: the warning lists five and is truncated.
C20_Witness ==
    /\ Generated
    /\ Cardinality(EmptySlots) > UnassignedExamples
    /\ \E i \in 1..Len(Res.warnings) :
          /\ Res.warnings[i].message = UnassignedMessage
          /\ Len(Res.warnings[i].details.examples) = UnassignedExamples
          /\ Res.warnings[i].details.truncated

----------------------------------------------------------------------------
(* Properties of getPositions (checked under SpecPositions). *)

\* The labels '<alliance> 1' .. '<alliance> n' in ascending slot order.
AllianceLabels(alliance, n) == [i \in 1..n |-> [alliance |-> alliance, slot |-> i]]

\* C22 as stated: for every teamsPerMatch >= 2 getPositions returns exactly
\* teamsPerMatch labels, '<allianceBlue> 1..N' then '<allianceRed> 1..N' with
\* N = floor(teamsPerMatch / 2).
C22_Original ==
    (Queried("getPositions") /\ eventConfig.teamsPerMatch >= 2) =>
        /\ Len(Value) = eventConfig.teamsPerMatch
        /\ Value = AllianceLabels(eventConfig.allianceBlue, eventConfig.teamsPerMatch \div 2)
                      \o AllianceLabels(eventConfig.allianceRed,
                                        eventConfig.teamsPerMatch \div 2)

\* C22 (amended): getPositions returns exactly 2 * floor(teamsPerMatch / 2) labels,
\* which is teamsPerMatch for an even teamsPerMatch and teamsPerMatch - 1 for an odd
\* one: '<allianceBlue> 1..N' then '<allianceRed> 1..N', N = floor(teamsPerMatch / 2),
\* slots ascending.
C22_Positions ==
    Queried("getPositions") =>
        LET n == eventConfig.teamsPerMatch \div 2
        IN  /\ Len(Value) = 2 * n
            /\ eventConfig.teamsPerMatch % 2 = 0 => Len(Value) = eventConfig.teamsPerMatch
            /\ eventConfig.teamsPerMatch % 2 = 1
                  => Len(Value) = eventConfig.teamsPerMatch - 1
            /\ \A i \in 1..n :
                /\ Value[i] = [alliance |-> eventConfig.allianceBlue, slot |-> i]
                /\ Value[n + i] = [alliance |-> eventConfig.allianceRed, slot |-> i]

\* Five teams per match: two labels per alliance, four in all.
C22_Witness ==
    /\ Queried("getPositions")
    /\ eventConfig.teamsPerMatch = 5
    /\ Len(Value) = 4
    /\ Value[3] = [alliance |-> eventConfig.allianceRed, slot |-> 1]

----------------------------------------------------------------------------
(* Further properties of calculateTurns (checked under SpecTurns). *)

\* C24: every turn returned by calculateTurns is non-empty (startMatch <= endMatch),
\* for every totalMatches >= 1 and every raw break-point list, lists repeating an
\* in-range value included.
C24_TurnsNonEmpty ==
    pc = "turns" =>
        \A i \in 1..Len(Turns) : Turns[i].startMatch <= Turns[i].endMatch

----------------------------------------------------------------------------
(* Further properties of the generated schedule (checked under Spec). *)

\* C25: with turns from calculateTurns a successful generateSchedule returns exactly
\* totalMatches entries numbered 1, 2, ..., totalMatches in ascending order without
\* duplicate, each with exactly positionsPerMatch assignments whose position labels
\* are getPositions(eventConfig) in order and whose teamNumber is null.
C25_ScheduleShape ==
    Generated =>
        /\ Len(Schedule) = TotalMatches
        /\ \A k \in 1..Len(Schedule) :
            /\ Schedule[k].matchNumber = k
            /\ Len(Schedule[k].assignments) = PositionsPerMatch
            /\ \A j \in 1..Len(Schedule[k].assignments) :
                /\ Schedule[k].assignments[j].position = getPositions(eventConfig)[j]
                /\ Schedule[k].assignments[j].teamNumber = None

\* Three matches in three turns, four positions each.
C25_Witness ==
    /\ Generated
    /\ TotalMatches = 3
    /\ Len(Turns) = 3
    /\ PositionsPerMatch = 4
    /\ Len(Schedule) = 3
    /\ Schedule[3].matchNumber = 3

\* The counters of the generation loop after the first n turns.
LoopAfter(n) == GenerateTurns(n, Turns, personnel, getPositions(eventConfig))

\* C27: for a roster of distinct names with scouters.length >= positionsPerMatch, after
\* every processed turn the turns-assigned counts of any two scouters differ by at
\* most 1.
C27_TurnCountsBalanced ==
    (Generated /\ DistinctNames /\ Len(Scouters) >= PositionsPerMatch) =>
        \A n \in 0..Len(Turns) : \A a, b \in Range(Scouters) :
            LoopAfter(n).scouterTurnCounts[a] - LoopAfter(n).scouterTurnCounts[b] <= 1

\* Three scouters for two positions over three turns: the counts end at 2, 2, 2 after
\* passing 1, 1, 0 and 2, 1, 1.
C27_Witness ==
    /\ Generated
    /\ DistinctNames
    /\ Len(Scouters) = 3
    /\ PositionsPerMatch = 2
    /\ Len(Turns) = 3
    /\ LoopAfter(1).scouterTurnCounts[Scouters[3]] = 0
    /\ LoopAfter(2).scouterTurnCounts[Scouters[1]] = 2
    /\ LoopAfter(2).scouterTurnCounts[Scouters[2]] = 1

\* The matches of the schedule in which the name is assigned.
MatchesAssigned(name) ==
    {k \in 1..Len(Schedule) :
        \E j \in 1..Len(Schedule[k].assignments) : Schedule[k].assignments[j].scouter = name}

NoEmptySlot ==
    \A k \in 1..Len(Schedule) : \A j \in 1..Len(Schedule[k].assignments) :
        Schedule[k].assignments[j].scouter # ""

\* C28: when generation finishes (distinct names, turns partitioning [1, totalMatches])
\* each scouter's total-match counter equals the number of matches of the returned
\* schedule in which the scouter is assigned, which is the totalMatches value of
\* getScouterStats; if no slot is empty the counters sum to
\* totalMatches * positionsPerMatch.
C28_MatchCountsAgree ==
    (Generated /\ DistinctNames) =>
        LET counts == LoopAfter(Len(Turns)).scouterMatchCounts
            stats == getScouterStats(Res.schedule[1])
        IN  /\ \A s \in Range(Scouters) :
                /\ counts[s] = Cardinality(MatchesAssigned(s))
                /\ counts[s] = IF s \in DOMAIN stats THEN stats[s].totalMatches ELSE 0
            /\ NoEmptySlot =>
                  SumOver(counts, Range(Scouters)) = TotalMatches * PositionsPerMatch

\* Two turns, the first of two matches: the first scouter worked all three matches,
\* the third only the last.
C28_Witness ==
    /\ Generated
    /\ DistinctNames
    /\ Len(Scouters) = 3
    /\ PositionsPerMatch = 2
    /\ Len(Turns) = 2
    /\ Turns[1].endMatch = 2
    /\ LoopAfter(2).scouterMatchCounts[Scouters[1]] = 3
    /\ LoopAfter(2).scouterMatchCounts[Scouters[3]] = 1
    /\ NoEmptySlot

\* C30: in a successful schedule with distinct names, N scouters, P positions and T
\* turns from calculateTurns with T * P >= N, every scouter of the roster appears in
\* at least one match of the returned schedule.
C30_NobodyLeftOut ==
    (Generated /\ DistinctNames
        /\ Len(Turns) * PositionsPerMatch >= Len(Scouters)) =>
        \A s \in Range(Scouters) : MatchesAssigned(s) # {}

----------------------------------------------------------------------------
(* Further properties of the query layer (checked under SpecQuery). *)

\* The number of assignments over all turn entries of a getScouterAssignments result.
RECURSIVE TotalAssignments(_)
TotalAssignments(turnAssignments) ==
    IF turnAssignments = <<>> THEN 0
    ELSE Len(Head(turnAssignments).assignments) + TotalAssignments(Tail(turnAssignments))

\* C29: for every generated schedule and every name of the scouter roster, the number
\* of assignments getScouterAssignments returns over all turns equals
\* getScouterStats(schedule).get(name).totalMatches (0 without an entry), rosters whose
\* names differ only in letter case included.
C29_ProjectionsAgree ==
    (Queried("getScouterAssignments") /\ Args[1] \in Range(Scouters)) =>
        LET stats == getScouterStats(GeneratedSchedule)
        IN  TotalAssignments(Value)
                = IF Args[1] \in DOMAIN stats THEN stats[Args[1]].totalMatches ELSE 0

----------------------------------------------------------------------------
(* The arguments of the core functions (checked under SpecCalls). *)

ArgumentsKept ==
    /\ shiftConfig'.breakPoints = shiftConfig.breakPoints
    /\ personnel' = personnel
    /\ eventConfig' = eventConfig
    /\ constraints' = constraints
    /\ pc # "input" => shiftConfig'.turns = shiftConfig.turns

----------------------------------------------------------------------------
(* Properties of both generators (checked under SpecGenerators). *)

PerMatch == query # None

\* The number of matches of the schedule in which the name is assigned, per roster name.
TotalMatchCounts == {Cardinality(MatchesAssigned(s)) : s \in Range(Scouters)}

CountSpread ==
    (CHOOSE x \in TotalMatchCounts : \A y \in TotalMatchCounts : x >= y)
        - (CHOOSE x \in TotalMatchCounts : \A y \in TotalMatchCounts : x <= y)

ImbalanceMessage == "Uneven workload distribution"

\* C21: the imbalance warning is emitted exactly when max - min of the per-scouter
\* total match counts over the roster exceeds ceil(totalMatches / scouters.length) * 2,
\* whether or not maxMatchesPerScouter is set.
C21_ImbalanceThreshold ==
    Generated =>
        /\ MessageCount(Res.warnings, ImbalanceMessage) <= 1
        /\ HasMessage(Res.warnings, ImbalanceMessage)
              <=> CountSpread > CeilDiv(TotalMatches, Len(Scouters)) * 2

\* Seven scouters, one turn of three matches: six scouters work three matches, one
\* none, and 3 > ceil(3 / 7) * 2; the cap is set.
C21_Witness ==
    /\ Generated
    /\ Cap # None
    /\ Len(Scouters) = 7
    /\ TotalMatches = 3
    /\ CountSpread = 3
    /\ HasMessage(Res.warnings, ImbalanceMessage)

\* C26: in every match of every generated schedule the non-empty scouter names of the
\* assignments are pairwise distinct, with the turn-scoped and with the per-match
\* generator.
C26_OnePositionPerScouter ==
    Generated =>
        \A k \in 1..Len(Schedule) : \A i, j \in 1..Len(Schedule[k].assignments) :
            (/\ i # j
             /\ Schedule[k].assignments[i].scouter # "")
                => Schedule[k].assignments[i].scouter # Schedule[k].assignments[j].scouter

\* The per-match generator on a roster naming one scouter twice: the name holds one
\* position of the match and another position stays empty.
C26_Witness ==
    /\ Generated
    /\ PerMatch
    /\ ~DistinctNames
    /\ \E j \in 1..PositionsPerMatch : Schedule[1].assignments[j].scouter = Scouters[1]
    /\ \E j \in 1..PositionsPerMatch : Schedule[1].assignments[j].scouter = ""

====
